---- MODULE Spec2Model ----
(***************************************************************************)
(* scrobbledb: the store (artists, albums, tracks, plays), the FTS5 index  *)
(* tracks_fts with its triggers (setup_fts5, rebuild_fts5), the ingest and *)
(* index commands, and the ingestion engine add_scrobbles.                 *)
(***************************************************************************)
EXTENDS Integers, Sequences, FiniteSets, Bags, TLC

VARIABLES
    db,        \* the SQLite database: tables, triggers, rows, the FTS5 rows
    op,        \* the last operation applied to the database
    nwrites,   \* number of library calls applied so far
    presync,   \* before the last operation: all triggers installed, index exact
    ipc,       \* ingest command: where it stands
    history,   \* ingest command: the entries recent_tracks has still to yield
    ingested,  \* ingest command: the entries saved by this run
    nruns,     \* number of commands started so far
    cfg,       \* add_scrobbles: skip_errors, limit, sample, seed, no_duplicates
    input,     \* add_scrobbles: the records scrobbles_iter yields
    pos,       \* add_scrobbles: number of records taken from scrobbles_iter
    stats,     \* add_scrobbles: the statistics dictionary
    existing_plays,  \* add_scrobbles: the (timestamp, track_id) keys seen
    apc,       \* add_scrobbles: where the call stands
    rng,       \* the state of the random module's generator
    db0,       \* the database as it was when the call started
    log,       \* what became of each record taken, in order
    prev,      \* the previous call: its arguments and what it left
    file,      \* import: the rows of the input file
    fpos,      \* import: number of rows parse_input has read
    console,   \* import: the messages parse_input printed
    saves,     \* the calls of save_artist .. save_play made, in order
    fetch,     \* recent_tracks / recent_tracks_count: the call's local state
    norm,      \* the normalizers: a record given to them and what they returned
    remote,    \* the remote history and the since of the ingest run
    query      \* domain_queries: the arguments of a query and what it returned

ftsvars == <<nwrites, presync>>
ingestvars == <<ipc, history, ingested, nruns>>
importvars == <<file, fpos, console>>
savevars == <<saves>>
latervars == <<remote, query>>
othervars == <<savevars, fetch, norm, latervars>>
outside == <<importvars, othervars>>
addcore == <<cfg, input, pos, stats, existing_plays, apc, rng, db0, log, prev>>
addvars == <<addcore, outside>>

vars == <<db, op, nwrites, presync, ipc, history, ingested, nruns,
          cfg, input, pos, stats, existing_plays, apc, rng, db0, log, prev,
          file, fpos, console, saves, fetch, norm, remote, query>>

----------------------------------------------------------------------------
(* Bounds and value domains                                                *)

MaxWrites == 5
MaxHistory == 2
MaxRuns == 2
MaxLen == 3
MaxLimit == 1
RngMod == 2

\* limit=None, sample=None, seed=None
NoLimit == -1
NoSample == -1
NoSeed == -1

ArtistIds == {"a1", "a2"}
AlbumIds == {"b1", "b2"}
TrackIds == {"t1", "t2"}
Names == {"x", "y"}

NULL == "NULL"

BaseTables == {"artists", "albums", "tracks"}

----------------------------------------------------------------------------
(* The database                                                            *)

\* sqlite_utils.Database(path) on a new file: no table, no trigger, no row.
EmptyDb ==
    [tables |-> {}, triggers |-> {},
     artists |-> {}, albums |-> {}, tracks |-> {}, plays |-> {},
     fts |-> EmptyBag]

\* DELETE FROM tracks_fts WHERE <column> = <id>
FtsDeleteWhere(fts, column, id) ==
    [r \in {x \in DOMAIN fts : x[column] # id} |-> fts[r]]

\* INSERT INTO tracks_fts ... SELECT ...: one new row per selected row.
FtsInsert(fts, rows) == fts (+) SetToBag(rows)

FtsRow(artist_name, album_title, track_title, artist_id, album_id, track_id) ==
    [artist_name |-> artist_name, album_title |-> album_title,
     track_title |-> track_title, artist_id |-> artist_id,
     album_id |-> album_id, track_id |-> track_id]

\* Trigger artists_ai, AFTER INSERT ON artists.
artists_ai(d, new) ==
    FtsInsert(FtsDeleteWhere(d.fts, "artist_id", new.id),
        {FtsRow(new.name, p[1].title, p[2].title, new.id, p[1].id, p[2].id) :
            p \in {q \in d.albums \X d.tracks :
                     q[1].id = q[2].album_id /\ q[1].artist_id = new.id}})

\* Trigger artists_au, AFTER UPDATE ON artists.
artists_au(d, new) ==
    FtsInsert(FtsDeleteWhere(d.fts, "artist_id", new.id),
        {FtsRow(new.name, p[1].title, p[2].title, new.id, p[1].id, p[2].id) :
            p \in {q \in d.albums \X d.tracks :
                     q[1].id = q[2].album_id /\ q[1].artist_id = new.id}})

\* Trigger artists_ad, AFTER DELETE ON artists.
artists_ad(d, old) == FtsDeleteWhere(d.fts, "artist_id", old.id)

\* Trigger albums_ai, AFTER INSERT ON albums.
albums_ai(d, new) ==
    FtsInsert(FtsDeleteWhere(d.fts, "album_id", new.id),
        {FtsRow(p[1].name, new.title, p[2].title, new.artist_id, new.id, p[2].id) :
            p \in {q \in d.artists \X d.tracks :
                     q[2].album_id = new.id /\ q[1].id = new.artist_id}})

\* albums_au without its DELETE: the rows of the old title stay.
albums_au_without_delete(d, new) ==
    FtsInsert(d.fts,
        {FtsRow(p[1].name, new.title, p[2].title, new.artist_id, new.id, p[2].id) :
            p \in {q \in d.artists \X d.tracks :
                     q[2].album_id = new.id /\ q[1].id = new.artist_id}})

\* Trigger albums_au, AFTER UPDATE ON albums.
albums_au(d, new) ==
    FtsInsert(FtsDeleteWhere(d.fts, "album_id", new.id),
        {FtsRow(p[1].name, new.title, p[2].title, new.artist_id, new.id, p[2].id) :
            p \in {q \in d.artists \X d.tracks :
                     q[2].album_id = new.id /\ q[1].id = new.artist_id}})

\* Trigger albums_ad, AFTER DELETE ON albums.
albums_ad(d, old) == FtsDeleteWhere(d.fts, "album_id", old.id)

\* Trigger tracks_ai, AFTER INSERT ON tracks: it inserts without deleting.
tracks_ai(d, new) ==
    FtsInsert(d.fts,
        {FtsRow(p[2].name, p[1].title, new.title, p[2].id, p[1].id, new.id) :
            p \in {q \in d.albums \X d.artists :
                     q[1].artist_id = q[2].id /\ q[1].id = new.album_id}})

\* tracks_au with its DELETE scoped by the album of the track.
tracks_au_deletes_album_rows(d, new) ==
    FtsInsert(FtsDeleteWhere(d.fts, "album_id", new.album_id),
        {FtsRow(p[2].name, p[1].title, new.title, p[2].id, p[1].id, new.id) :
            p \in {q \in d.albums \X d.artists :
                     q[1].artist_id = q[2].id /\ q[1].id = new.album_id}})

\* Trigger tracks_au, AFTER UPDATE ON tracks.
tracks_au(d, new) ==
    FtsInsert(FtsDeleteWhere(d.fts, "track_id", new.id),
        {FtsRow(p[2].name, p[1].title, new.title, p[2].id, p[1].id, new.id) :
            p \in {q \in d.albums \X d.artists :
                     q[1].artist_id = q[2].id /\ q[1].id = new.album_id}})

\* Trigger tracks_ad, AFTER DELETE ON tracks.
tracks_ad(d, old) == FtsDeleteWhere(d.fts, "track_id", old.id)

\* setup_fts5: CREATE VIRTUAL TABLE IF NOT EXISTS tracks_fts, then the three
\* triggers of each of artists, albums, tracks that is in db.table_names().
setup_fts5(d) ==
    [d EXCEPT !.tables = @ \cup {"tracks_fts"},
              !.triggers = @ \cup (d.tables \cap BaseTables)]

\* The rows of the SELECT of rebuild_fts5: tracks JOIN albums JOIN artists.
RebuildRows(d) ==
    {FtsRow(p[3].name, p[2].title, p[1].title, p[3].id, p[2].id, p[1].id) :
        p \in {q \in d.tracks \X d.albums \X d.artists :
                 q[1].album_id = q[2].id /\ q[2].artist_id = q[3].id}}

\* rebuild_fts5 without its DELETE FROM tracks_fts.
rebuild_fts5_without_clear(d) == [d EXCEPT !.fts = FtsInsert(d.fts, RebuildRows(d))]

\* rebuild_fts5: DELETE FROM tracks_fts, then INSERT ... SELECT over the join.
rebuild_fts5(d) == [d EXCEPT !.fts = FtsInsert(EmptyBag, RebuildRows(d))]

\* A row with this primary key is in the table.
HasId(rows, id) == \E r \in rows : r.id = id

\* An insert that keeps the row already stored under the primary key.
Upsert_keeps_stored_row(rows, data) ==
    IF \E r \in rows : r.id = data.id THEN rows ELSE rows \cup {data}

\* sqlite-utils upsert of one row by primary key id: the row replaces the one
\* with the same id, or is added.
Upsert(rows, data) == {r \in rows : r.id # data.id} \cup {data}

\* save_artist raises: name is NOT NULL; a trigger body that names a table
\* that does not exist fails the statement.
save_artist_raises(d, data) ==
    \/ data.name = NULL
    \/ "artists" \in d.triggers /\ ~({"albums", "tracks"} \subseteq d.tables)

\* save_artist: db["artists"].upsert(data, pk="id", not_null=["name"]).
save_artist(d, data) ==
    LET d1 == [d EXCEPT !.tables = @ \cup {"artists"},
                        !.artists = Upsert(@, data)]
    IN  IF "artists" \notin d.triggers THEN d1
        ELSE IF HasId(d.artists, data.id)
             THEN [d1 EXCEPT !.fts = artists_au(d1, data)]
             ELSE [d1 EXCEPT !.fts = artists_ai(d1, data)]

\* save_album raises: title and artist_id are NOT NULL; creating the table
\* with foreign_keys=["artist_id"] needs the artists table.
save_album_raises(d, data) ==
    \/ data.title = NULL
    \/ "albums" \notin d.tables /\ "artists" \notin d.tables
    \/ "albums" \in d.triggers /\ ~({"artists", "tracks"} \subseteq d.tables)

\* save_album: db["albums"].upsert(data, pk="id", foreign_keys=["artist_id"]).
save_album(d, data) ==
    LET d1 == [d EXCEPT !.tables = @ \cup {"albums"},
                        !.albums = Upsert(@, data)]
    IN  IF "albums" \notin d.triggers THEN d1
        ELSE IF HasId(d.albums, data.id)
             THEN [d1 EXCEPT !.fts = albums_au(d1, data)]
             ELSE [d1 EXCEPT !.fts = albums_ai(d1, data)]

\* save_track raises: title and album_id are NOT NULL; creating the table
\* with foreign_keys=["album_id"] needs the albums table.
save_track_raises(d, data) ==
    \/ data.title = NULL
    \/ "tracks" \notin d.tables /\ "albums" \notin d.tables

\* save_track: db["tracks"].upsert(data, pk="id", foreign_keys=["album_id"]).
save_track(d, data) ==
    LET d1 == [d EXCEPT !.tables = @ \cup {"tracks"},
                        !.tracks = Upsert(@, data)]
    IN  IF "tracks" \notin d.triggers THEN d1
        ELSE IF HasId(d.tracks, data.id)
             THEN [d1 EXCEPT !.fts = tracks_au(d1, data)]
             ELSE [d1 EXCEPT !.fts = tracks_ai(d1, data)]

\* DELETE FROM artists WHERE id = ?
delete_artist(d, id) ==
    LET d1 == [d EXCEPT !.artists = {r \in @ : r.id # id}]
    IN  IF "artists" \in d.triggers /\ HasId(d.artists, id)
        THEN [d1 EXCEPT !.fts = artists_ad(d1, [id |-> id])]
        ELSE d1

\* DELETE FROM albums WHERE id = ?
delete_album(d, id) ==
    LET d1 == [d EXCEPT !.albums = {r \in @ : r.id # id}]
    IN  IF "albums" \in d.triggers /\ HasId(d.albums, id)
        THEN [d1 EXCEPT !.fts = albums_ad(d1, [id |-> id])]
        ELSE d1

\* DELETE FROM tracks WHERE id = ?
delete_track(d, id) ==
    LET d1 == [d EXCEPT !.tracks = {r \in @ : r.id # id}]
    IN  IF "tracks" \in d.triggers /\ HasId(d.tracks, id)
        THEN [d1 EXCEPT !.fts = tracks_ad(d1, [id |-> id])]
        ELSE d1

----------------------------------------------------------------------------
(* Scrobbles, as the normalizers build them                                *)

\* datetime objects, and the two texts Python makes of one.
Datetimes == {"dt1", "dt2"}

isoformat(t) ==
    IF t = "dt1" THEN "2024-01-15T14:30:00+00:00" ELSE "2024-01-15T14:31:00+00:00"

str_datetime(t) ==
    IF t = "dt1" THEN "2024-01-15 14:30:00+00:00" ELSE "2024-01-15 14:31:00+00:00"

\* What sqlite-utils binds for a timestamp value: a datetime as its
\* isoformat() text, a text as it is.
StoredTimestamp(ts) == IF ts \in Datetimes THEN isoformat(ts) ELSE ts

\* The dictionary with the album naming the track's id as its artist.
Scrobble_album_of_track(artist_id, artist_name, album_id, album_title, track_id, track_title, ts) ==
    [artist |-> [id |-> artist_id, name |-> artist_name],
     album |-> [id |-> album_id, title |-> album_title, artist_id |-> track_id],
     track |-> [id |-> track_id, title |-> track_title, album_id |-> album_id],
     play |-> [track_id |-> track_id, timestamp |-> ts]]

\* The dictionary _extract_track_data and parse_scrobble_dict return.
Scrobble(artist_id, artist_name, album_id, album_title, track_id, track_title, ts) ==
    [artist |-> [id |-> artist_id, name |-> artist_name],
     album |-> [id |-> album_id, title |-> album_title, artist_id |-> artist_id],
     track |-> [id |-> track_id, title |-> track_title, album_id |-> album_id],
     play |-> [track_id |-> track_id, timestamp |-> ts]]

\* The records an input may hold: two with the same (timestamp, track_id)
\* and different names, other tracks and times, a timestamp given as text,
\* and one whose album title is missing.
Pool ==
    {Scrobble("a1", "x", "b1", "x", "t1", "x", "dt1"),
     Scrobble("a1", "y", "b1", "x", "t1", "y", "dt1"),
     Scrobble("a2", "x", "b2", "x", "t2", "x", "dt1"),
     Scrobble("a1", "x", "b1", "x", "t1", "x", "2024-01-15T14:31:00+00:00"),
     Scrobble("a2", "x", "b2", NULL, "t2", "x", "dt2")}

\* save_play raises: creating the table with foreign_keys=["track_id"] needs
\* the tracks table.
save_play_raises(d, data) ==
    "plays" \notin d.tables /\ "tracks" \notin d.tables

\* save_play: db["plays"].upsert(data, pk=["timestamp", "track_id"]).
save_play(d, data) ==
    LET row == [timestamp |-> StoredTimestamp(data.timestamp),
                track_id |-> data.track_id]
    IN  [d EXCEPT !.tables = @ \cup {"plays"},
                  !.plays = {r \in @ : r # row} \cup {row}]

----------------------------------------------------------------------------
(* The normalizers: _extract_track_data and parse_scrobble_dict            *)

\* A key that the dictionary does not hold, and the value None.
Absent == "ABSENT"
PyNone == "None"

UnknownAlbum == "(unknown album)"

\* "not value": the key is missing, or its value is None or "".
Falsy(v) == v \in {Absent, PyNone, ""}

\* str(value).strip()
Strip(v) == IF v \in {" ", "  "} THEN "" ELSE IF v = " x " THEN "x" ELSE v

\* The bytes md5 is fed with, and a digest: "md5:" + hexdigest().
Text(t) == [text |-> t]

Md5(parts) == [md5 |-> parts]

\* The texts parse_timestamp is given.
TimestampTexts == {"1705329000", "2024-01-15T14:30:00Z", "2024-01-15 14:31:00", "junk", " "}

\* parse_timestamp: a Unix time, the known formats, then dateutil; a text
\* none of them reads raises ValueError.
parse_timestamp(t) ==
    CASE t \in {"1705329000", "2024-01-15T14:30:00Z"} -> "dt1"
      [] t = "2024-01-15 14:31:00" -> "dt2"
      [] OTHER -> "ValueError"

\* synthesize_mbids(artist_name, album_title, track_title)
synthesize_mbids(artist_name, album_title, track_title) ==
    LET artist_mbid == Md5(<<Text(artist_name)>>)
        album_mbid == Md5(<<artist_mbid, Text(album_title)>>)
        track_mbid == Md5(<<album_mbid, Text(track_title)>>)
    IN  <<artist_mbid, album_mbid, track_mbid>>

\* ValueError raised by parse_scrobble_dict.
ValueError(message) == [error |-> message]

Raised(r) == "error" \in DOMAIN r

\* parse_scrobble_dict(data): data holds the normalized keys timestamp,
\* artist, album, track, artist_mbid, album_mbid, track_mbid.
parse_scrobble_dict(data) ==
    IF Falsy(data.timestamp) THEN ValueError("Missing required field: timestamp")
    ELSE IF Falsy(data.artist) THEN ValueError("Missing required field: artist")
    ELSE IF Falsy(data.track) THEN ValueError("Missing required field: track")
    ELSE IF parse_timestamp(data.timestamp) = "ValueError"
         THEN ValueError("Invalid timestamp")
    ELSE
    LET timestamp == parse_timestamp(data.timestamp)
        artist_name == Strip(data.artist)
        track_title == Strip(data.track)
        got == IF data.album = Absent THEN UnknownAlbum ELSE Strip(data.album)
        album_title == IF got = "" THEN UnknownAlbum ELSE got
        synth == synthesize_mbids(artist_name, album_title, track_title)
        artist_mbid == IF Falsy(data.artist_mbid) THEN synth[1] ELSE data.artist_mbid
        album_mbid == IF Falsy(data.album_mbid) THEN synth[2] ELSE data.album_mbid
        track_mbid == IF Falsy(data.track_mbid) THEN synth[3] ELSE data.track_mbid
    IN  Scrobble(artist_mbid, artist_name, album_mbid, album_title,
                 track_mbid, track_title, timestamp)

\* dt.datetime.fromtimestamp(int(uts), tz=timezone.utc)
fromtimestamp(uts) == IF uts = "1705329000" THEN "dt1" ELSE "dt2"

\* _extract_track_data(track): the texts and mbid attributes of the node; a
\* missing album title is None, a missing mbid is "".
extract_track_data(node) ==
    LET album_title == IF node.album = PyNone THEN UnknownAlbum ELSE node.album
        artist_mbid == IF node.artist_mbid = "" THEN Md5(<<Text(node.artist)>>)
                       ELSE node.artist_mbid
        artist_bytes == IF node.artist_mbid = "" THEN artist_mbid ELSE Text(artist_mbid)
        album_mbid == IF node.album_mbid = ""
                      THEN Md5(<<artist_bytes, Text(album_title)>>)
                      ELSE node.album_mbid
        album_bytes == IF node.album_mbid = "" THEN album_mbid ELSE Text(album_mbid)
        track_mbid == IF node.track_mbid = ""
                      THEN Md5(<<album_bytes, Text(node.track)>>)
                      ELSE node.track_mbid
    IN  Scrobble(artist_mbid, node.artist, album_mbid, album_title,
                 track_mbid, node.track, fromtimestamp(node.uts))

----------------------------------------------------------------------------
(* add_scrobbles: its arguments and local state                            *)

Limits == {NoLimit} \cup (0..MaxLimit)
Samples == {NoSample} \cup (0..RngMod)
Seeds == {NoSeed, 1}

Configs ==
    [skip_errors : BOOLEAN, limit : Limits, sample : Samples, seed : Seeds,
     no_duplicates : BOOLEAN]

NewStats ==
    [total_processed |-> 0, sampled |-> 0, added |-> 0, skipped |-> 0,
     errors |-> <<>>, limit_reached |-> FALSE]

NoCall ==
    [cfg |-> [skip_errors |-> FALSE, limit |-> NoLimit, sample |-> NoSample,
              seed |-> NoSeed, no_duplicates |-> FALSE],
     input |-> <<>>, db0 |-> EmptyDb, db |-> EmptyDb, stats |-> NewStats,
     log |-> <<>>, apc |-> "idle"]

\* No record is given to the normalizers.
NoNorm == [given |-> FALSE, parsed |-> FALSE, extracted |-> FALSE]

\* attempts=5 of stamina.retry_context
Attempts == 5

\* total_pages = None
NoPages == -1

\* An XML response: whether it has a document element and the element a
\* child, the child's totalPages and perPage attributes ("" when missing)
\* and its child nodes.
Doc(root, child, totalPages, perPage, nodes) ==
    [root |-> root, child |-> child, totalPages |-> totalPages, perPage |-> perPage,
     nodes |-> nodes]

NoDoc == Doc(FALSE, FALSE, "", "", <<>>)

\* No call of recent_tracks or recent_tracks_count is made.
NoFetch ==
    [fn |-> "none", pc |-> "idle", limit |-> 0, page |-> 0, total_pages |-> NoPages,
     attempt |-> 0, doc |-> NoDoc, node |-> 0, tracks_yielded |-> 0,
     yielded |-> 0, requests |-> 0, outcome |-> "none", error |-> "none",
     result |-> 0]

\* since_date = None
NoSince == -1

\* No remote history is read.
NoRemote == [entries |-> <<>>, since |-> NoSince]

\* No query is made.
NoQuery == [fn |-> "none"]

\* No call of add_scrobbles is made.
IdleAdd ==
    /\ cfg = NoCall.cfg
    /\ input = <<>>
    /\ pos = 0
    /\ stats = NewStats
    /\ existing_plays = {}
    /\ apc = "idle"
    /\ rng = 0
    /\ db0 = EmptyDb
    /\ log = <<>>
    /\ prev = NoCall
    /\ file = <<>>
    /\ fpos = 0
    /\ console = <<>>
    /\ saves = <<>>
    /\ fetch = NoFetch
    /\ norm = NoNorm
    /\ remote = NoRemote
    /\ query = NoQuery

----------------------------------------------------------------------------
(* The store written through the library's functions, one call per step    *)

AllTriggers(d) == BaseTables \subseteq d.triggers

\* The index holds the rows a rebuild would give, each once.
InSync(d) == d.fts = SetToBag(RebuildRows(d))

WriteOps ==
    {"save_artist", "save_album", "save_track",
     "delete_artist", "delete_album", "delete_track"}

IdleIngest ==
    /\ ipc = "idle"
    /\ history = <<>>
    /\ ingested = {}
    /\ nruns = 0

\* A store holding two artists with an album and a track each.
Library ==
    LET d1 == save_artist(save_artist(EmptyDb, [id |-> "a1", name |-> "x"]),
                          [id |-> "a2", name |-> "y"])
        d2 == save_album(save_album(d1, [id |-> "b1", title |-> "x", artist_id |-> "a1"]),
                         [id |-> "b2", title |-> "y", artist_id |-> "a2"])
    IN  save_track(save_track(d2, [id |-> "t1", title |-> "x", album_id |-> "b1"]),
                   [id |-> "t2", title |-> "y", album_id |-> "b2"])

\* The index command: setup_fts5, then rebuild_fts5.
index(d) == rebuild_fts5(setup_fts5(d))

\* A new database, or the library after the index command.
InitFts ==
    /\ db \in {EmptyDb, index(Library)}
    /\ op = "open"
    /\ nwrites = 0
    /\ presync = FALSE
    /\ IdleIngest
    /\ IdleAdd

\* One library call: the bookkeeping shared by the steps below.
Call(name) ==
    /\ nwrites < MaxWrites
    /\ op' = name
    /\ nwrites' = nwrites + 1
    /\ presync' = (AllTriggers(db) /\ InSync(db))
    /\ UNCHANGED <<ingestvars, addvars>>

SetupFts5 ==
    /\ db' = setup_fts5(db)
    /\ Call("setup_fts5")

RebuildFts5 ==
    /\ "tracks_fts" \in db.tables
    /\ BaseTables \subseteq db.tables
    /\ db' = rebuild_fts5(db)
    /\ Call("rebuild_fts5")

SaveArtist ==
    /\ \E id \in ArtistIds, name \in Names :
         LET data == [id |-> id, name |-> name]
         IN  /\ ~save_artist_raises(db, data)
             /\ db' = save_artist(db, data)
    /\ Call("save_artist")

SaveAlbum ==
    /\ \E id \in AlbumIds, title \in Names, artist_id \in ArtistIds :
         LET data == [id |-> id, title |-> title, artist_id |-> artist_id]
         IN  /\ ~save_album_raises(db, data)
             /\ db' = save_album(db, data)
    /\ Call("save_album")

SaveTrack ==
    /\ \E id \in TrackIds, title \in Names, album_id \in AlbumIds :
         LET data == [id |-> id, title |-> title, album_id |-> album_id]
         IN  /\ ~save_track_raises(db, data)
             /\ db' = save_track(db, data)
    /\ Call("save_track")

DeleteArtist ==
    /\ \E id \in ArtistIds :
         /\ HasId(db.artists, id)
         /\ db' = delete_artist(db, id)
    /\ Call("delete_artist")

DeleteAlbum ==
    /\ \E id \in AlbumIds :
         /\ HasId(db.albums, id)
         /\ db' = delete_album(db, id)
    /\ Call("delete_album")

DeleteTrack ==
    /\ \E id \in TrackIds :
         /\ HasId(db.tracks, id)
         /\ db' = delete_track(db, id)
    /\ Call("delete_track")

NextFts ==
    \/ SetupFts5
    \/ RebuildFts5
    \/ SaveArtist
    \/ SaveAlbum
    \/ SaveTrack
    \/ DeleteArtist
    \/ DeleteAlbum
    \/ DeleteTrack

SpecFts == InitFts /\ [][NextFts]_vars

----------------------------------------------------------------------------
(* Index consistency                                                       *)

\* C1: with the triggers installed on artists, albums and tracks and the
\* index exact, every insert, upsert or delete of an artist, album or track
\* row leaves in tracks_fts the set of rows rebuild_fts5 would produce from
\* the base tables.
C1_TriggersMatchRebuild ==
    (presync /\ op \in WriteOps) => BagToSet(db.fts) = RebuildRows(db)

\* An upsert that changed an indexed album happened under the triggers.
C1_Witness ==
    /\ presync
    /\ op = "save_album"
    /\ \E r \in db.albums : r.id = "b1" /\ r.artist_id = "a2" /\ r.title = "y"
    /\ Cardinality(db.tracks) = 2
    /\ BagToSet(db.fts) = RebuildRows(db)

\* The number of rows of tracks_fts that carry this track id.
FtsRowsOfTrack(d, id) ==
    BagCardinality([r \in {x \in DOMAIN d.fts : x.track_id = id} |-> d.fts[r]])

\* The album row and the artist row a track row leads to, if they exist.
Parents(d, t) ==
    {p \in d.albums \X d.artists : p[1].id = t.album_id /\ p[1].artist_id = p[2].id}

\* The track has exactly one row in the index, carrying the current values.
IndexedOnce(d, t) ==
    /\ FtsRowsOfTrack(d, t.id) = 1
    /\ \E p \in Parents(d, t) :
         BagIn(FtsRow(p[2].name, p[1].title, t.title, p[2].id, p[1].id, t.id), d.fts)

NoRowWithoutTrack(d) ==
    \A r \in DOMAIN d.fts : HasId(d.tracks, r.track_id)

AtSyncPoint == (presync /\ op \in WriteOps) \/ op = "rebuild_fts5"

\* C2 as stated: at every synchronization point each row of tracks has
\* exactly one row in tracks_fts with the current names and titles.
C2_OneRowPerTrack ==
    AtSyncPoint =>
        /\ \A t \in db.tracks : IndexedOnce(db, t)
        /\ NoRowWithoutTrack(db)

\* C2 amended: at every synchronization point each track whose album row
\* and that album's artist row exist has exactly one row in tracks_fts, with
\* the current names and titles; a track without them has no row; no row
\* belongs to a track that does not exist.
C2_OneRowPerJoinedTrack ==
    AtSyncPoint =>
        /\ \A t \in db.tracks :
             IF Parents(db, t) # {} THEN IndexedOnce(db, t)
             ELSE FtsRowsOfTrack(db, t.id) = 0
        /\ NoRowWithoutTrack(db)

\* An artist delete under the triggers left two indexed tracks and some
\* track that has lost its artist.
C2_Witness ==
    /\ presync
    /\ op = "delete_artist"
    /\ db.fts # EmptyBag
    /\ \E t \in db.tracks : Parents(db, t) = {}

----------------------------------------------------------------------------
(* The ingest and index commands                                           *)

\* Sequences over S of length at most n.
SeqsUpTo(S, n) == UNION {[1..k -> S] : k \in 0..n}

IdleFts ==
    /\ nwrites = 0
    /\ presync = FALSE

\* A new database, the library before any index command, or after one.
InitIngest ==
    /\ db \in {EmptyDb, Library, index(Library)}
    /\ op = "open"
    /\ IdleFts
    /\ IdleIngest
    /\ IdleAdd

CommandEnded == ipc \in {"idle", "done", "failed"}

\* ingest, up to the loop: recent_tracks is given the history it will
\* yield; setup_fts5 is called when tracks_fts is not a table yet.
IngestStart ==
    /\ CommandEnded
    /\ nruns < MaxRuns
    /\ nruns' = nruns + 1
    /\ \E h \in SeqsUpTo(Pool, MaxHistory) :
         /\ history' = h
         /\ ipc' = IF h = <<>> THEN "done" ELSE "artist"
    /\ ingested' = {}
    /\ db' = IF "tracks_fts" \notin db.tables THEN setup_fts5(db) ELSE db
    /\ op' = "ingest"
    /\ UNCHANGED <<ftsvars, addvars>>

\* One save of the loop body; an exception ends the command.
IngestSave(at, name, raises, saved, then) ==
    /\ ipc = at
    /\ op' = name
    /\ IF raises
       THEN /\ ipc' = "failed"
            /\ UNCHANGED <<db, history, ingested>>
       ELSE /\ db' = saved
            /\ IF at = "play"
               THEN /\ history' = Tail(history)
                    /\ ingested' = ingested \cup {Head(history)}
                    /\ ipc' = IF Tail(history) = <<>> THEN "done" ELSE "artist"
               ELSE /\ ipc' = then
                    /\ UNCHANGED <<history, ingested>>
    /\ UNCHANGED <<nruns, nwrites, presync, addvars>>

IngestSaveArtist ==
    /\ history # <<>>
    /\ IngestSave("artist", "save_artist",
                  save_artist_raises(db, Head(history).artist),
                  save_artist(db, Head(history).artist), "album")

IngestSaveAlbum ==
    /\ history # <<>>
    /\ IngestSave("album", "save_album",
                  save_album_raises(db, Head(history).album),
                  save_album(db, Head(history).album), "track")

IngestSaveTrack ==
    /\ history # <<>>
    /\ IngestSave("track", "save_track",
                  save_track_raises(db, Head(history).track),
                  save_track(db, Head(history).track), "play")

IngestSavePlay ==
    /\ history # <<>>
    /\ IngestSave("play", "save_play",
                  save_play_raises(db, Head(history).play),
                  save_play(db, Head(history).play), "artist")

\* The index command: it needs the tracks table.
IndexCommand ==
    /\ CommandEnded
    /\ nruns < MaxRuns
    /\ nruns' = nruns + 1
    /\ "tracks" \in db.tables
    /\ db' = index(db)
    /\ op' = "index"
    /\ ipc' = "idle"
    /\ UNCHANGED <<history, ingested, nwrites, presync, addvars>>

NextIngest ==
    \/ IngestStart
    \/ IngestSaveArtist
    \/ IngestSaveAlbum
    \/ IngestSaveTrack
    \/ IngestSavePlay
    \/ IndexCommand

SpecIngest == InitIngest /\ [][NextIngest]_vars

\* C3: when the ingest command has finished, whatever tables the database
\* held when the command called setup_fts5, every track it saved has its
\* row in tracks_fts.
C3_IngestedTracksIndexed ==
    ipc = "done" =>
        \A s \in ingested :
            \A t \in db.tracks : t.id = s.track.id => IndexedOnce(db, t)

----------------------------------------------------------------------------
(* add_scrobbles                                                           *)

\* random.seed(seed)
SeedRng(seed) == seed % RngMod

\* random.random(): the draw, in units of 1/RngMod, and the state after it.
RandomDraw(state) == state

NextRng(state) == (state + 1) % RngMod

\* add_scrobbles without its call of random.seed.
RngAfterSeed_not_seeded(c, state) == state

\* if seed is not None: random.seed(seed)
RngAfterSeed(c, state) == IF c.seed # NoSeed THEN SeedRng(c.seed) ELSE state

\* existing_plays as loaded before the loop.
LoadExistingPlays(d, c) ==
    IF c.no_duplicates /\ "plays" \in d.tables
    THEN {<<r.timestamp, r.track_id>> : r \in d.plays}
    ELSE {}

\* The key made with str() of the datetime, not isoformat().
PlayKey_str(s) ==
    <<IF s.play.timestamp \in Datetimes THEN str_datetime(s.play.timestamp)
      ELSE s.play.timestamp,
      s.track.id>>

\* (timestamp_str, track_id) of a scrobble.
PlayKey(s) ==
    <<IF s.play.timestamp \in Datetimes THEN isoformat(s.play.timestamp)
      ELSE s.play.timestamp,
      s.track.id>>

\* The comparison written as random.random() > sample.
Excluded_gt(draw, sample) == draw > sample

\* random.random() >= sample
Excluded(draw, sample) == draw >= sample

\* The limit check written as added > limit.
Decide_limit_gt(c, st, draw, seen) ==
    IF c.sample # NoSample /\ Excluded(draw, c.sample) THEN "excluded"
    ELSE IF c.limit # NoLimit /\ st.added > c.limit THEN "limit"
    ELSE IF c.no_duplicates /\ seen THEN "skipped"
    ELSE "write"

\* The limit check made before the sampling draw is looked at.
Decide_limit_first(c, st, draw, seen) ==
    IF c.limit # NoLimit /\ st.added >= c.limit THEN "limit"
    ELSE IF c.sample # NoSample /\ Excluded(draw, c.sample) THEN "excluded"
    ELSE IF c.no_duplicates /\ seen THEN "skipped"
    ELSE "write"

\* The duplicate check made before the limit check.
Decide_duplicate_first(c, st, draw, seen) ==
    IF c.sample # NoSample /\ Excluded(draw, c.sample) THEN "excluded"
    ELSE IF c.no_duplicates /\ seen THEN "skipped"
    ELSE IF c.limit # NoLimit /\ st.added >= c.limit THEN "limit"
    ELSE "write"

\* What the loop does with a record before the writes: the sampling draw,
\* then the limit check, then the duplicate check.
Decide(c, st, draw, seen) ==
    IF c.sample # NoSample /\ Excluded(draw, c.sample) THEN "excluded"
    ELSE IF c.limit # NoLimit /\ st.added >= c.limit THEN "limit"
    ELSE IF c.no_duplicates /\ seen THEN "skipped"
    ELSE "write"

\* add_scrobbles without existing_plays.add.
RememberKey_forgets(c, keys, key) == keys

\* existing_plays after a record was added.
RememberKey(c, keys, key) == IF c.no_duplicates THEN keys \cup {key} ELSE keys

\* The call record kept for comparison with the next call.
ThisCall ==
    [cfg |-> cfg, input |-> input, db0 |-> db0, db |-> db, stats |-> stats,
     log |-> log, apc |-> apc]

\* A new database and the generator in any state; no call made yet.
InitAdd ==
    /\ db = EmptyDb
    /\ op = "open"
    /\ IdleFts
    /\ IdleIngest
    /\ cfg = NoCall.cfg
    /\ input = <<>>
    /\ pos = 0
    /\ stats = NewStats
    /\ existing_plays = {}
    /\ apc = "idle"
    /\ rng \in 0..(RngMod - 1)
    /\ db0 = EmptyDb
    /\ log = <<>>
    /\ prev = NoCall
    /\ file = <<>>
    /\ fpos = 0
    /\ console = <<>>
    /\ saves = <<>>
    /\ fetch = NoFetch
    /\ norm = NoNorm
    /\ remote = NoRemote
    /\ query = NoQuery

\* add_scrobbles(d, scrobbles_iter, **c) up to the loop; records are those
\* the iterator has ready.
Begin(d, c, records) ==
    /\ cfg' = c
    /\ input' = records
    /\ pos' = 0
    /\ stats' = NewStats
    /\ rng' = RngAfterSeed(c, rng)
    /\ existing_plays' = LoadExistingPlays(d, c)
    /\ apc' = "loop"
    /\ db' = d
    /\ db0' = d
    /\ log' = <<>>
    /\ UNCHANGED <<op, ftsvars, ingestvars>>

\* add_scrobbles(d, iter(records), **c) up to the loop.
Enter(d, c, records) ==
    /\ Begin(d, c, records)
    /\ UNCHANGED outside

\* The first call.
AddScrobbles ==
    /\ apc = "idle"
    /\ \E c \in Configs, records \in SeqsUpTo(Pool, MaxLen) : Enter(db, c, records)
    /\ UNCHANGED prev

CallEnded == apc \in {"returned", "raised"}

\* The same call again after the database was put back as it was.
RunAgain ==
    /\ CallEnded
    /\ prev = NoCall
    /\ cfg.sample # NoSample
    /\ prev' = ThisCall
    /\ Enter(db0, cfg, input)

\* The same records again on the database as it is, with no_duplicates=True.
RunAgainNoDuplicates ==
    /\ CallEnded
    /\ prev = NoCall
    /\ cfg.sample = NoSample
    /\ cfg.limit = NoLimit
    /\ prev' = ThisCall
    /\ Enter(db, [cfg EXCEPT !.no_duplicates = TRUE], input)

\* The same call again with sample=1.0, after the database was put back.
RunAgainSampleAll ==
    /\ CallEnded
    /\ prev = NoCall
    /\ cfg.sample = NoSample
    /\ prev' = ThisCall
    /\ Enter(db0, [cfg EXCEPT !.sample = RngMod], input)

\* The same call again with a limit, after the database was put back.
RunAgainWithLimit ==
    /\ CallEnded
    /\ prev = NoCall
    /\ cfg.limit = NoLimit
    /\ cfg.seed # NoSeed \/ cfg.sample = NoSample
    /\ prev' = ThisCall
    /\ \E l \in 0..MaxLimit : Enter(db0, [cfg EXCEPT !.limit = l], input)

\* One turn of "for scrobble in scrobbles_iter" up to the writes.
Take ==
    /\ apc = "loop"
    /\ IF pos = Len(input)
       THEN /\ fpos = Len(file)
            /\ apc' = "returned"
            /\ UNCHANGED <<pos, stats, rng, log>>
       ELSE LET s == input[pos + 1]
                what == Decide(cfg, stats, RandomDraw(rng), PlayKey(s) \in existing_plays)
                counted == [stats EXCEPT
                              !.total_processed = @ + 1,
                              !.sampled = IF cfg.sample # NoSample /\ what # "excluded"
                                          THEN @ + 1 ELSE @]
            IN  /\ pos' = pos + 1
                /\ rng' = IF cfg.sample # NoSample THEN NextRng(rng) ELSE rng
                /\ CASE what = "excluded" ->
                          /\ stats' = counted
                          /\ apc' = "loop"
                          /\ log' = Append(log, "excluded")
                     [] what = "limit" ->
                          /\ stats' = [counted EXCEPT !.limit_reached = TRUE]
                          /\ apc' = "returned"
                          /\ log' = Append(log, "limit")
                     [] what = "skipped" ->
                          /\ stats' = [counted EXCEPT !.skipped = @ + 1]
                          /\ apc' = "loop"
                          /\ log' = Append(log, "skipped")
                     [] OTHER ->
                          /\ stats' = counted
                          /\ apc' = "artist"
                          /\ log' = log
    /\ UNCHANGED <<db, op, ftsvars, ingestvars, cfg, input, existing_plays, db0, prev,
                   outside>>

\* The except block without its "if not skip_errors: raise".
Save_never_reraises(at, raises, saved, message, then) ==
    /\ apc = at
    /\ IF raises
       THEN /\ stats' = [stats EXCEPT !.errors = Append(@, message)]
            /\ apc' = "loop"
            /\ log' = Append(log, "error")
            /\ UNCHANGED <<db, existing_plays>>
       ELSE /\ db' = saved
            /\ IF at = "play"
               THEN /\ existing_plays' = RememberKey(cfg, existing_plays, PlayKey(input[pos]))
                    /\ stats' = [stats EXCEPT !.added = @ + 1]
                    /\ log' = Append(log, "added")
                    /\ apc' = "loop"
               ELSE /\ apc' = then
                    /\ UNCHANGED <<stats, existing_plays, log>>
    /\ UNCHANGED <<op, ftsvars, ingestvars, cfg, input, pos, rng, db0, prev,
                   outside>>

\* The except block without stats["errors"].append.
Save_drops_message(at, raises, saved, message, then) ==
    /\ apc = at
    /\ IF raises
       THEN /\ apc' = IF cfg.skip_errors THEN "loop" ELSE "raised"
            /\ log' = Append(log, "error")
            /\ UNCHANGED <<db, existing_plays, stats>>
       ELSE /\ db' = saved
            /\ IF at = "play"
               THEN /\ existing_plays' = RememberKey(cfg, existing_plays, PlayKey(input[pos]))
                    /\ stats' = [stats EXCEPT !.added = @ + 1]
                    /\ log' = Append(log, "added")
                    /\ apc' = "loop"
               ELSE /\ apc' = then
                    /\ UNCHANGED <<stats, existing_plays, log>>
    /\ UNCHANGED <<op, ftsvars, ingestvars, cfg, input, pos, rng, db0, prev,
                   outside>>

\* The key put into existing_plays before the writes, not after them.
Save_remembers_early(at, raises, saved, message, then) ==
    /\ apc = at
    /\ IF raises
       THEN /\ stats' = [stats EXCEPT !.errors = Append(@, message)]
            /\ apc' = IF cfg.skip_errors THEN "loop" ELSE "raised"
            /\ log' = Append(log, "error")
            /\ existing_plays' = RememberKey(cfg, existing_plays, PlayKey(input[pos]))
            /\ UNCHANGED db
       ELSE /\ db' = saved
            /\ IF at = "play"
               THEN /\ existing_plays' = RememberKey(cfg, existing_plays, PlayKey(input[pos]))
                    /\ stats' = [stats EXCEPT !.added = @ + 1]
                    /\ log' = Append(log, "added")
                    /\ apc' = "loop"
               ELSE /\ apc' = then
                    /\ UNCHANGED <<stats, existing_plays, log>>
    /\ UNCHANGED <<op, ftsvars, ingestvars, cfg, input, pos, rng, db0, prev,
                   outside>>

\* One save of the try block; "except Exception as e" when it raises.
Save(at, raises, saved, message, then) ==
    /\ apc = at
    /\ IF raises
       THEN /\ stats' = [stats EXCEPT !.errors = Append(@, message)]
            /\ apc' = IF cfg.skip_errors THEN "loop" ELSE "raised"
            /\ log' = Append(log, "error")
            /\ UNCHANGED <<db, existing_plays>>
       ELSE /\ db' = saved
            /\ IF at = "play"
               THEN /\ existing_plays' = RememberKey(cfg, existing_plays, PlayKey(input[pos]))
                    /\ stats' = [stats EXCEPT !.added = @ + 1]
                    /\ log' = Append(log, "added")
                    /\ apc' = "loop"
               ELSE /\ apc' = then
                    /\ UNCHANGED <<stats, existing_plays, log>>
    /\ UNCHANGED <<op, ftsvars, ingestvars, cfg, input, pos, rng, db0, prev,
                   outside>>

AddSaveArtist ==
    /\ pos > 0
    /\ Save("artist", save_artist_raises(db, input[pos].artist),
            save_artist(db, input[pos].artist), "artists.name", "album")

AddSaveAlbum ==
    /\ pos > 0
    /\ Save("album", save_album_raises(db, input[pos].album),
            save_album(db, input[pos].album), "albums.title", "track")

AddSaveTrack ==
    /\ pos > 0
    /\ Save("track", save_track_raises(db, input[pos].track),
            save_track(db, input[pos].track), "tracks.title", "play")

AddSavePlay ==
    /\ pos > 0
    /\ Save("play", save_play_raises(db, input[pos].play),
            save_play(db, input[pos].play), "plays", "loop")

NextAdd ==
    \/ AddScrobbles
    \/ Take
    \/ AddSaveArtist
    \/ AddSaveAlbum
    \/ AddSaveTrack
    \/ AddSavePlay
    \/ RunAgain
    \/ RunAgainNoDuplicates
    \/ RunAgainSampleAll
    \/ RunAgainWithLimit

SpecAdd == InitAdd /\ [][NextAdd]_vars

----------------------------------------------------------------------------
(* import: parse_input feeding add_scrobbles                               *)

\* A row of the input file, its keys normalized.
Row(timestamp, artist, album, track, artist_mbid, album_mbid, track_mbid) ==
    [timestamp |-> timestamp, artist |-> artist, album |-> album, track |-> track,
     artist_mbid |-> artist_mbid, album_mbid |-> album_mbid, track_mbid |-> track_mbid]

\* The rows a file may hold: two that parse, one without artist, one whose
\* timestamp cannot be read.
ImportRows ==
    {Row("2024-01-15T14:30:00Z", "x", "x", "x", "a1", "b1", "t1"),
     Row("2024-01-15 14:31:00", "y", Absent, "y", "a2", "b2", "t2"),
     Row("2024-01-15T14:30:00Z", "", "x", "x", "a1", "b1", "t1"),
     Row("junk", "x", "x", "x", "a1", "b1", "t1")}

\* A database whose artists trigger names tables that do not exist: every
\* write of an artist fails on it.
BrokenDb == setup_fts5(save_artist(EmptyDb, [id |-> "a1", name |-> "x"]))

InitImport ==
    /\ db \in {EmptyDb, BrokenDb}
    /\ op = "open"
    /\ IdleFts
    /\ IdleIngest
    /\ IdleAdd

\* import_data: add_scrobbles(db, parse_input(), skip_errors=..., ...); the
\* generator has read no row yet.
ImportData ==
    /\ apc = "idle"
    /\ \E c \in Configs, rows \in SeqsUpTo(ImportRows, MaxLen) :
         /\ Begin(db, c, <<>>)
         /\ file' = rows
    /\ fpos' = 0
    /\ console' = <<>>
    /\ UNCHANGED <<prev, othervars>>

\* parse_input resumed by the loop's next(): it reads one row; a row that
\* parses is yielded, a ValueError is printed under skip_errors and raised
\* as ClickException otherwise.
ParseNext ==
    /\ apc = "loop"
    /\ pos = Len(input)
    /\ fpos < Len(file)
    /\ fpos' = fpos + 1
    /\ LET r == parse_scrobble_dict(file[fpos + 1])
       IN  IF Raised(r)
           THEN IF cfg.skip_errors
                THEN /\ console' = Append(console, r.error)
                     /\ UNCHANGED <<input, apc>>
                ELSE /\ apc' = "raised"
                     /\ UNCHANGED <<input, console>>
           ELSE /\ input' = Append(input, r)
                /\ UNCHANGED <<apc, console>>
    /\ UNCHANGED <<db, op, ftsvars, ingestvars, cfg, pos, stats, existing_plays,
                   rng, db0, log, prev, file, othervars>>

NextImport ==
    \/ ImportData
    \/ ParseNext
    \/ Take
    \/ AddSaveArtist
    \/ AddSaveAlbum
    \/ AddSaveTrack
    \/ AddSavePlay

SpecImport == InitImport /\ [][NextImport]_vars

----------------------------------------------------------------------------
(* Ingestion: duplicates, limit, sampling                                  *)

Last(q) == q[Len(q)]

\* The (timestamp, track_id) key of a scrobble as a row of plays holds it.
StoredKey(s) ==
    [timestamp |-> StoredTimestamp(s.play.timestamp), track_id |-> s.play.track_id]

DistinctKeys(records) ==
    \A i, j \in 1..Len(records) : i # j => StoredKey(records[i]) # StoredKey(records[j])

\* This call is the second one, on the same records as the first.
SecondCall == prev # NoCall /\ CallEnded /\ input = prev.input

\* C4: add_scrobbles on N scrobbles with pairwise distinct (timestamp,
\* track_id) keys, then again on the same scrobbles with no_duplicates=True:
\* plays holds N rows and the second call reports added = 0, skipped = N.
C4_SecondRunSkipsAll ==
    ( /\ SecondCall
      /\ prev.db0.plays = {}
      /\ prev.apc = "returned"
      /\ prev.stats.added = Len(input)
      /\ DistinctKeys(input)
      /\ db0 = prev.db
      /\ cfg.no_duplicates
      /\ cfg.limit = NoLimit
      /\ cfg.sample = NoSample )
    => /\ apc = "returned"
       /\ Cardinality(db.plays) = Len(input)
       /\ stats.added = 0
       /\ stats.skipped = Len(input)

\* Three scrobbles were added by the first call and skipped by the second.
C4_Witness ==
    /\ SecondCall
    /\ prev.stats.added = Len(input)
    /\ DistinctKeys(input)
    /\ db0 = prev.db
    /\ cfg.no_duplicates
    /\ Len(input) = MaxLen
    /\ stats.skipped = Len(input)

\* C5: under limit = L added never exceeds L, and when the same call
\* without a limit adds more than L records the call ends with added = L
\* and limit_reached = true.
C5_LimitRespected ==
    /\ cfg.limit # NoLimit => stats.added <= cfg.limit
    /\ ( /\ SecondCall
         /\ prev.cfg.limit = NoLimit
         /\ cfg.limit # NoLimit
         /\ cfg = [prev.cfg EXCEPT !.limit = cfg.limit]
         /\ cfg.seed # NoSeed \/ cfg.sample = NoSample
         /\ db0 = prev.db0
         /\ prev.stats.added > cfg.limit )
       => /\ apc = "returned"
          /\ stats.added = cfg.limit
          /\ stats.limit_reached

\* A call that would add three records stopped at one under limit = 1.
C5_Witness ==
    /\ SecondCall
    /\ prev.cfg.limit = NoLimit
    /\ cfg = [prev.cfg EXCEPT !.limit = 1]
    /\ db0 = prev.db0
    /\ prev.stats.added = MaxLen
    /\ stats.added = 1
    /\ stats.limit_reached

\* The loop is at its head with the limit already reached.
AtLimit ==
    /\ apc = "loop"
    /\ cfg.limit # NoLimit
    /\ cfg.limit > 0
    /\ stats.added = cfg.limit

\* C6 as stated: once L records were added under limit = L, no further
\* record is taken from the input iterator.
C6_TakesNoFurtherRecord ==
    [][AtLimit => pos' = pos]_vars

\* C6 amended: once L records were added under limit = L nothing more is
\* written, and records are still taken from the iterator: each one excluded
\* by sampling is counted in total_processed and passed over, the first one
\* not excluded is counted too, sets limit_reached and ends the call; the
\* call returns with limit_reached = false only if the input ends first.
C6_TakesUntilOneIsSampled ==
    [][AtLimit =>
        /\ db' = db
        /\ apc' \in {"loop", "returned"}
        /\ stats'.added = stats.added
        /\ IF pos < Len(input)
           THEN /\ pos' = pos + 1
                /\ stats'.total_processed = stats.total_processed + 1
                /\ IF cfg.sample # NoSample /\ RandomDraw(rng) >= cfg.sample
                   THEN apc' = "loop" /\ ~stats'.limit_reached
                   ELSE apc' = "returned" /\ stats'.limit_reached
           ELSE /\ apc' = "returned"
                /\ stats' = stats
       ]_vars

\* After the record that reached the limit, one record was excluded by
\* sampling and the next one ended the call.
C6_Witness ==
    /\ apc = "returned"
    /\ cfg.limit = 1
    /\ log = <<"added", "excluded", "limit">>
    /\ stats.total_processed = 3
    /\ stats.limit_reached

\* C7: with sample and limit set, the draw of a record is made whether or
\* not the limit is reached, a record excluded by sampling changes neither
\* added nor limit_reached nor sampled and does not end the loop, and added
\* grows only when a record's play was written.
C7_SamplingBeforeLimit ==
    [][ /\ ( /\ apc = "loop"
             /\ pos < Len(input)
             /\ cfg.sample # NoSample
             /\ cfg.limit # NoLimit )
           => /\ rng' = NextRng(rng)
              /\ RandomDraw(rng) >= cfg.sample
                   => /\ stats'.added = stats.added
                      /\ stats'.limit_reached = stats.limit_reached
                      /\ stats'.sampled = stats.sampled
                      /\ apc' = "loop"
        /\ ( /\ apc \in {"loop", "artist", "album", "track", "play"}
             /\ stats'.added # stats.added )
           => /\ apc = "play"
              /\ stats'.added = stats.added + 1
              /\ StoredKey(input[pos]) \in db'.plays
      ]_vars

\* The input ended on a record excluded by sampling while the limit was
\* reached: limit_reached stayed false.
C7_Witness ==
    /\ apc = "returned"
    /\ cfg.limit = 1
    /\ stats.added = 1
    /\ ~stats.limit_reached
    /\ cfg.sample = 1
    /\ log = <<"added", "excluded">>

\* C8: with sample = 0.0 no record is added and no table changes; with
\* sample = 1.0 the call ends as the same call with sample unset does, with
\* the same stored rows and the same added count.
C8_SampleZeroAndOne ==
    /\ (cfg.sample = 0 /\ apc # "idle") => (stats.added = 0 /\ db = db0)
    /\ ( /\ SecondCall
         /\ prev.cfg.sample = NoSample
         /\ cfg = [prev.cfg EXCEPT !.sample = RngMod]
         /\ db0 = prev.db0 )
       => /\ db = prev.db
          /\ stats.added = prev.stats.added
          /\ apc = prev.apc

\* The call with sample = 1.0 added what the call with sample unset added.
C8_Witness ==
    /\ SecondCall
    /\ prev.cfg.sample = NoSample
    /\ cfg = [prev.cfg EXCEPT !.sample = RngMod]
    /\ db0 = prev.db0
    /\ stats.added = MaxLen
    /\ stats.sampled = MaxLen

\* C9: two calls on the same records, from the same store, with the same
\* seed and sample select the same positions of the input, report the same
\* statistics and leave the same rows.
C9_SeededRunsAgree ==
    ( /\ SecondCall
      /\ cfg = prev.cfg
      /\ cfg.seed # NoSeed
      /\ db0 = prev.db0 )
    => /\ log = prev.log
       /\ stats = prev.stats
       /\ db = prev.db
       /\ apc = prev.apc

\* Both seeded calls excluded the same record and added the same others.
C9_Witness ==
    /\ SecondCall
    /\ cfg = prev.cfg
    /\ cfg.seed # NoSeed
    /\ cfg.sample = 1
    /\ db0 = prev.db0
    /\ log = <<"excluded", "added", "excluded">>
    /\ prev.log = log

\* The next record of the input is a duplicate under no_duplicates=True.
AtDuplicate ==
    /\ apc = "loop"
    /\ pos < Len(input)
    /\ cfg.no_duplicates
    /\ StoredKey(input[pos + 1]) \in db.plays

\* C10 as stated: with no_duplicates=True a scrobble whose key is in the
\* store, or was added earlier in the call, is counted in skipped and causes
\* no write.
C10_DuplicateCountedInSkipped ==
    [][AtDuplicate => (db' = db /\ stats'.skipped = stats.skipped + 1)]_vars

\* C10 amended: with no_duplicates=True a scrobble whose (timestamp, track_id) key
\* is a row of plays, stored before the call or added earlier in it, never
\* reaches the writes: no table changes, and unless it is excluded by
\* sampling or met at the limit it is counted in skipped.
C10_DuplicateCausesNoWrite ==
    [][ AtDuplicate
        => /\ db' = db
           /\ apc' \in {"loop", "returned"}
           /\ ( /\ ~(cfg.sample # NoSample /\ RandomDraw(rng) >= cfg.sample)
                /\ ~(cfg.limit # NoLimit /\ stats.added >= cfg.limit) )
              => /\ stats'.skipped = stats.skipped + 1
                 /\ apc' = "loop"
                 /\ stats'.added = stats.added
      ]_vars

\* A scrobble was skipped whose artist name differs from the stored one
\* and whose key was added earlier in the same call.
C10_Witness ==
    /\ apc = "loop"
    /\ prev = NoCall
    /\ cfg.no_duplicates
    /\ pos = 2
    /\ log = <<"added", "skipped">>
    /\ \E r \in db.artists : r.id = input[pos].artist.id /\ r.name # input[pos].artist.name

----------------------------------------------------------------------------
(* Ingestion: order of the writes, errors                                  *)

\* Every reference of a stored row names a stored row.
ReferencesExist(d) ==
    /\ \A p \in d.plays : HasId(d.tracks, p.track_id)
    /\ \A t \in d.tracks : HasId(d.albums, t.album_id)
    /\ \A b \in d.albums : HasId(d.artists, b.artist_id)

\* C11: in every state reached during ingestion, between the writes of one
\* record and after a write that failed too, every play names a stored
\* track, every track a stored album and every album a stored artist.
C11_ReferencesExist == ReferencesExist(db)

\* The album write of a record failed after its artist was written, in a
\* store that already holds plays.
C11_Witness ==
    /\ apc = "loop"
    /\ pos > 1
    /\ log = <<"added", "error">>
    /\ input[pos].album.title = NULL
    /\ HasId(db.artists, input[pos].artist.id)
    /\ ~HasId(db.albums, input[pos].album.id)
    /\ db.plays # {}

\* The processing of a record raises in this step: a write fails, or
\* parse_input meets a row that does not parse.
RecordRaises ==
    \/ Len(stats'.errors) > Len(stats.errors)
    \/ /\ fpos' = fpos + 1
       /\ Raised(parse_scrobble_dict(file[fpos + 1]))

\* C12: with skip_errors=False the first record whose processing raises
\* ends the run with the error propagating, and after it the run reads no
\* further row or record and writes nothing.
C12_FirstErrorEndsRun ==
    [][ /\ (~cfg.skip_errors /\ apc # "idle" /\ RecordRaises) => apc' = "raised"
        /\ (apc = "raised" /\ prev' = prev)
             => UNCHANGED <<db, pos, fpos, input, stats, console>>
      ]_vars

\* The run was ended by a row that does not parse, after a record was
\* written and with a row left unread.
C12_Witness ==
    /\ apc = "raised"
    /\ ~cfg.skip_errors
    /\ db.plays # {}
    /\ fpos = 2
    /\ Len(file) = 3
    /\ Raised(parse_scrobble_dict(file[fpos]))

\* C13: when a run with skip_errors=True has returned, the message of every
\* record that failed, in validation or in a write, is in the errors list
\* of the report.
C13_FailuresInReport ==
    (apc = "returned" /\ cfg.skip_errors) =>
        \A i \in 1..fpos :
            LET r == parse_scrobble_dict(file[i])
            IN  Raised(r) => \E j \in 1..Len(stats.errors) : stats.errors[j] = r.error

----------------------------------------------------------------------------
(* The save functions called in any order                                  *)

MaxSaves == 3

\* The arguments of a call: the function and its data dictionary.
SaveArgs ==
    [kind : {"artist"}, data : [id : ArtistIds, name : Names]]
    \cup [kind : {"album"}, data : [id : AlbumIds, title : Names, artist_id : {"a1"}]]
    \cup [kind : {"track"}, data : [id : TrackIds, title : Names, album_id : {"b1"}]]
    \cup [kind : {"play"},
          data : [track_id : {"t1"},
                  timestamp : {"dt1", "dt2", "2024-01-15T14:30:00+00:00"}]]

SaveRaises(d, a) ==
    CASE a.kind = "artist" -> save_artist_raises(d, a.data)
      [] a.kind = "album" -> save_album_raises(d, a.data)
      [] a.kind = "track" -> save_track_raises(d, a.data)
      [] OTHER -> save_play_raises(d, a.data)

SaveResult(d, a) ==
    CASE a.kind = "artist" -> save_artist(d, a.data)
      [] a.kind = "album" -> save_album(d, a.data)
      [] a.kind = "track" -> save_track(d, a.data)
      [] OTHER -> save_play(d, a.data)

\* The row a call writes.
SaveRow(c) ==
    IF c.kind = "play"
    THEN [timestamp |-> StoredTimestamp(c.data.timestamp), track_id |-> c.data.track_id]
    ELSE c.data

\* The store without the row that has the primary key of the call.
WithoutRow(d, a) ==
    CASE a.kind = "artist" -> [d EXCEPT !.artists = {r \in @ : r.id # a.data.id}]
      [] a.kind = "album" -> [d EXCEPT !.albums = {r \in @ : r.id # a.data.id}]
      [] a.kind = "track" -> [d EXCEPT !.tracks = {r \in @ : r.id # a.data.id}]
      [] OTHER -> [d EXCEPT !.plays = {r \in @ : r # SaveRow(a)}]

\* The call raises, and would not with no row stored under its key.
RaisedByKey(d, a) == SaveRaises(d, a) /\ ~SaveRaises(WithoutRow(d, a), a)

InitSave ==
    /\ db = EmptyDb
    /\ op = "open"
    /\ IdleFts
    /\ IdleIngest
    /\ IdleAdd

\* One call of a save function; an exception leaves the store as it was.
CallSave(kind) ==
    /\ Len(saves) < MaxSaves
    /\ \E a \in SaveArgs :
         /\ a.kind = kind
         /\ IF SaveRaises(db, a)
            THEN /\ saves' = Append(saves, [kind |-> a.kind, data |-> a.data, raised |-> TRUE,
                                         by_key |-> RaisedByKey(db, a)])
                 /\ UNCHANGED db
            ELSE /\ saves' = Append(saves, [kind |-> a.kind, data |-> a.data, raised |-> FALSE,
                                         by_key |-> FALSE])
                 /\ db' = SaveResult(db, a)
    /\ op' = kind
    /\ UNCHANGED <<ftsvars, ingestvars, addcore, importvars, fetch, norm, latervars>>

CallSaveArtist == CallSave("artist")

CallSaveAlbum == CallSave("album")

CallSaveTrack == CallSave("track")

CallSavePlay == CallSave("play")

\* setup_fts5 called between the saves.
CallSetupFts5 ==
    /\ "tracks_fts" \notin db.tables
    /\ db' = setup_fts5(db)
    /\ op' = "setup_fts5"
    /\ UNCHANGED <<ftsvars, ingestvars, addcore, importvars, savevars, fetch, norm,
                   latervars>>

NextSave ==
    \/ CallSaveArtist
    \/ CallSaveAlbum
    \/ CallSaveTrack
    \/ CallSavePlay
    \/ CallSetupFts5

SpecSave == InitSave /\ [][NextSave]_vars

\* The primary key of the row a call writes.
SaveKey(c) ==
    IF c.kind = "play"
    THEN <<StoredTimestamp(c.data.timestamp), c.data.track_id>>
    ELSE <<c.data.id>>

\* The rows of the most recent call that returned, for each primary key.
LatestRows(kind) ==
    {SaveRow(saves[i]) : i \in
        {i \in 1..Len(saves) :
            /\ saves[i].kind = kind
            /\ ~saves[i].raised
            /\ \A j \in (i + 1)..Len(saves) :
                 ~(saves[j].kind = kind /\ ~saves[j].raised
                   /\ SaveKey(saves[j]) = SaveKey(saves[i]))}}

UniqueIds(rows) == \A r, q \in rows : r.id = q.id => r = q

----------------------------------------------------------------------------
(* The fetcher: _api_request_with_retry, recent_tracks, recent_tracks_count *)

MaxPages == 2
MaxFetchLimit == 2

\* int(text) of an attribute; "ValueError" when the text is no integer.
IntTexts == {"-1", "0", "1", "2", "3", "4"}

IntOf(t) ==
    CASE t = "-1" -> -1
      [] t = "0" -> 0
      [] t = "1" -> 1
      [] t = "2" -> 2
      [] t = "3" -> 3
      [] t = "4" -> 4

\* The child nodes a page may hold: tracks, and text nodes.
NodeLists == {<<>>, <<"track">>, <<"track", "track">>, <<"text", "track">>}

\* The responses the API may give to a page request.
Docs ==
    {Doc(TRUE, TRUE, tp, "2", nodes) :
        tp \in {t \in IntTexts : IntOf(t) <= MaxPages}, nodes \in NodeLists}
    \cup {Doc(FALSE, FALSE, "", "", <<>>),
          Doc(TRUE, FALSE, "", "", <<>>),
          Doc(TRUE, TRUE, "", "2", <<"track">>),
          Doc(TRUE, TRUE, "abc", "2", <<"track">>),
          Doc(TRUE, TRUE, "1", "", <<"track">>),
          Doc(TRUE, TRUE, "1", "x", <<"track">>),
          Doc(TRUE, TRUE, "1", "-1", <<"track">>)}

\* What user._request does: it returns a document or raises.
Outcomes == {"WSError", "NetworkError", "ok"}

InitFetch ==
    /\ db = EmptyDb
    /\ op = "open"
    /\ IdleFts
    /\ IdleIngest
    /\ IdleAdd

\* Nothing but the fetcher's state changes.
FetchOnly ==
    UNCHANGED <<db, op, ftsvars, ingestvars, addcore, importvars, savevars, norm,
                latervars>>

\* recent_tracks(user, since, limit=limit) up to its first page request;
\* limit 0 stands for None as well.
RecentTracks ==
    /\ fetch.pc = "idle"
    /\ \E limit \in 0..MaxFetchLimit :
         fetch' = [NoFetch EXCEPT !.fn = "recent_tracks", !.pc = "request",
                                  !.limit = limit, !.page = 1, !.requests = 1]
    /\ FetchOnly

\* recent_tracks_count(user, since) up to its page request.
RecentTracksCount ==
    /\ fetch.pc = "idle"
    /\ fetch' = [NoFetch EXCEPT !.fn = "recent_tracks_count", !.pc = "request",
                                !.page = 1, !.requests = 1]
    /\ FetchOnly

\* Retries on whatever exception the request raised.
ShouldRetry_any_exception(outcome, attempt) == outcome # "ok" /\ attempt < Attempts

\* stamina retries: the exception is pylast.WSError and attempts remain.
ShouldRetry(outcome, attempt) == outcome = "WSError" /\ attempt < Attempts

\* recent_tracks_count without its check for negative values.
CountOf_negative_allowed(doc) ==
    IF ~doc.root THEN 0
    ELSE IF ~doc.child THEN 0
    ELSE IF doc.totalPages = "" \/ doc.perPage = "" THEN 0
    ELSE IF doc.totalPages \notin IntTexts \/ doc.perPage \notin IntTexts THEN 0
    ELSE IntOf(doc.totalPages) * IntOf(doc.perPage)

\* recent_tracks_count from the document to its return value.
CountOf(doc) ==
    IF ~doc.root THEN 0
    ELSE IF ~doc.child THEN 0
    ELSE IF doc.totalPages = "" \/ doc.perPage = "" THEN 0
    ELSE IF doc.totalPages \notin IntTexts \/ doc.perPage \notin IntTexts THEN 0
    ELSE IF IntOf(doc.totalPages) < 0 \/ IntOf(doc.perPage) < 0 THEN 0
    ELSE IntOf(doc.totalPages) * IntOf(doc.perPage)

\* recent_tracks from the document to the loop over its nodes: the
\* exception raised on the way, or "none".
PageError(doc, total_pages) ==
    IF ~doc.root THEN "AttributeError"
    ELSE IF ~doc.child THEN "IndexError"
    ELSE IF total_pages = NoPages /\ doc.totalPages \notin IntTexts THEN "ValueError"
    ELSE "none"

\* total_pages read again from every response.
TotalPagesAfter_every_response(total_pages, doc) == IntOf(doc.totalPages)

\* "if total_pages is None: total_pages = int(main.getAttribute(...))"
TotalPagesAfter(total_pages, doc) ==
    IF total_pages = NoPages THEN IntOf(doc.totalPages) ELSE total_pages

\* An exception leaves the function: recent_tracks_count catches it and
\* returns 0, recent_tracks lets it through.
Propagate(f, error) ==
    IF f.fn = "recent_tracks_count"
    THEN [f EXCEPT !.pc = "done", !.result = 0]
    ELSE [f EXCEPT !.pc = "failed", !.error = error]

\* One attempt of _api_request_with_retry and, when it returns a document,
\* what the caller does with it up to its loop or return.
Attempt ==
    /\ fetch.pc = "request"
    /\ \E outcome \in Outcomes, doc \in Docs :
         LET f == [fetch EXCEPT !.attempt = @ + 1, !.outcome = outcome]
         IN  fetch' =
               IF outcome # "ok"
               THEN IF ShouldRetry(outcome, f.attempt) THEN f
                    ELSE Propagate(f, outcome)
               ELSE IF f.fn = "recent_tracks_count"
                    THEN [f EXCEPT !.pc = "done", !.doc = doc, !.result = CountOf(doc)]
                    ELSE IF PageError(doc, f.total_pages) # "none"
                         THEN Propagate([f EXCEPT !.doc = doc], PageError(doc, f.total_pages))
                         ELSE [f EXCEPT !.pc = "page", !.doc = doc, !.node = 0,
                                        !.total_pages = TotalPagesAfter(@, doc)]
    /\ FetchOnly

\* "for node in main.childNodes" up to the yield, or past the last node to
\* the next page request or the end.
NextNode ==
    /\ fetch.pc = "page"
    /\ fetch' =
         IF fetch.node < Len(fetch.doc.nodes)
         THEN IF fetch.doc.nodes[fetch.node + 1] = "track"
              THEN [fetch EXCEPT !.node = @ + 1, !.pc = "yield", !.yielded = @ + 1]
              ELSE [fetch EXCEPT !.node = @ + 1]
         ELSE IF fetch.page + 1 > fetch.total_pages
              THEN [fetch EXCEPT !.page = @ + 1, !.pc = "done"]
              ELSE [fetch EXCEPT !.page = @ + 1, !.pc = "request", !.attempt = 0,
                                 !.outcome = "none", !.requests = @ + 1]
    /\ FetchOnly

\* The limit compared with > in place of >=.
LimitReached_gt(limit, tracks_yielded) == limit # 0 /\ tracks_yielded > limit

\* "if limit and tracks_yielded >= limit"
LimitReached(limit, tracks_yielded) == limit # 0 /\ tracks_yielded >= limit

\* The generator resumed after a yield.
Resume ==
    /\ fetch.pc = "yield"
    /\ LET n == fetch.tracks_yielded + 1
       IN  fetch' = [fetch EXCEPT !.tracks_yielded = n,
                                  !.pc = IF LimitReached(fetch.limit, n)
                                         THEN "done" ELSE "page"]
    /\ FetchOnly

NextFetch ==
    \/ RecentTracks
    \/ RecentTracksCount
    \/ Attempt
    \/ NextNode
    \/ Resume

SpecFetch == InitFetch /\ [][NextFetch]_vars

\* The consumer keeps pulling from the generator and every request ends.
SpecFetchLive == SpecFetch /\ WF_vars(NextFetch)

\* C15: a page request is attempted at most 5 times, attempted again only
\* after pylast.WSError, and left at the first document returned; when the
\* last attempt fails too the error leaves recent_tracks, which yields
\* nothing and requests nothing after it.
C15_RetryThenFail ==
    [][ /\ fetch'.attempt <= Attempts
        /\ (fetch'.pc = "request" /\ fetch'.attempt > 0) => fetch'.outcome = "WSError"
        /\ fetch'.outcome = "ok" => fetch'.pc # "request"
        /\ ( /\ fetch'.fn = "recent_tracks"
             /\ fetch'.attempt = Attempts
             /\ fetch'.outcome = "WSError" )
           => (fetch'.pc = "failed" /\ fetch'.error = "WSError")
        /\ fetch.pc = "failed" => fetch' = fetch
      ]_vars

\* The request of the second page failed five times after the first page
\* was yielded: the fetch has failed.
C15_Witness ==
    /\ fetch.fn = "recent_tracks"
    /\ fetch.pc = "failed"
    /\ fetch.error = "WSError"
    /\ fetch.attempt = Attempts
    /\ fetch.page = 2
    /\ fetch.yielded = 2

\* C16: recent_tracks raises no error because of a response that has no
\* document element, no child node, or no numeric totalPages.
C16_MalformedPageIsEmpty ==
    fetch.fn = "recent_tracks"
        => fetch.error \notin {"AttributeError", "IndexError", "ValueError"}

\* C17: recent_tracks with limit = n > 0 yields at most n entries, and once
\* the n-th is yielded it makes no further request or attempt and yields
\* nothing more.
C17_LimitStopsRequests ==
    [][ /\ fetch'.limit > 0 => fetch'.yielded <= fetch'.limit
        /\ ( /\ fetch.fn = "recent_tracks"
             /\ fetch.limit > 0
             /\ fetch.yielded >= fetch.limit )
           => /\ fetch'.requests = fetch.requests
              /\ fetch'.attempt = fetch.attempt
              /\ fetch'.yielded = fetch.yielded
              /\ fetch'.pc = "done"
      ]_vars

\* The limit was reached on the last entry of the first of two pages: the
\* generator ended with one request made.
C17_Witness ==
    /\ fetch.fn = "recent_tracks"
    /\ fetch.pc = "done"
    /\ fetch.limit = 2
    /\ fetch.yielded = 2
    /\ fetch.node = Len(fetch.doc.nodes)
    /\ fetch.page = 1
    /\ fetch.total_pages = 2
    /\ fetch.requests = 1

\* The first page's metadata holds totalPages and perPage as non-negative
\* integers.
CountableDoc(doc) ==
    /\ doc.root
    /\ doc.child
    /\ doc.totalPages \in {"0", "1", "2", "3", "4"}
    /\ doc.perPage \in {"0", "1", "2", "3", "4"}

\* C18: recent_tracks_count never raises; it returns totalPages x perPage
\* when the request returned a document holding both as non-negative
\* integers, and 0 in every other case.
C18_CountOrZero ==
    fetch.fn = "recent_tracks_count" =>
        /\ fetch.pc # "failed"
        /\ fetch.pc = "done" =>
             fetch.result =
               IF fetch.outcome = "ok" /\ CountableDoc(fetch.doc)
               THEN IntOf(fetch.doc.totalPages) * IntOf(fetch.doc.perPage)
               ELSE 0

\* The count of two pages of two plays.
C18_Witness ==
    /\ fetch.fn = "recent_tracks_count"
    /\ fetch.pc = "done"
    /\ fetch.doc.totalPages = "2"
    /\ fetch.doc.perPage = "2"
    /\ fetch.result = 4

----------------------------------------------------------------------------
(* The two normalizers on one record                                       *)

\* The records of an import file: every field missing, empty, blank or set.
Rows ==
    [timestamp : {Absent, "", "junk", "1705329000", "2024-01-15 14:31:00"},
     artist : {Absent, "", " ", "x", " x "},
     album : {Absent, PyNone, "", " ", "x"},
     track : {"", "  ", "x", "y"},
     artist_mbid : {Absent, "", "A"},
     album_mbid : {"", "B"},
     track_mbid : {"", "T"}]

\* The track node of the API that carries the same names and mbids.
NodeOf(row) ==
    [artist |-> row.artist,
     album |-> IF row.album = Absent THEN PyNone ELSE row.album,
     track |-> row.track,
     artist_mbid |-> IF row.artist_mbid = Absent THEN "" ELSE row.artist_mbid,
     album_mbid |-> row.album_mbid,
     track_mbid |-> row.track_mbid,
     uts |-> "1705329000"]

InitNorm ==
    /\ db = EmptyDb
    /\ op = "open"
    /\ IdleFts
    /\ IdleIngest
    /\ cfg = NoCall.cfg
    /\ input = <<>>
    /\ pos = 0
    /\ stats = NewStats
    /\ existing_plays = {}
    /\ apc = "idle"
    /\ rng = 0
    /\ db0 = EmptyDb
    /\ log = <<>>
    /\ prev = NoCall
    /\ file = <<>>
    /\ fpos = 0
    /\ console = <<>>
    /\ saves = <<>>
    /\ fetch = NoFetch
    /\ remote = NoRemote
    /\ query = NoQuery
    /\ \E row \in Rows :
         norm = [given |-> TRUE, row |-> row, parsed |-> FALSE, extracted |-> FALSE]

NormOnly ==
    UNCHANGED <<db, op, ftsvars, ingestvars, addcore, importvars, savevars, fetch,
                latervars>>

\* parse_scrobble_dict(row)
ParseScrobbleDict ==
    /\ norm.given
    /\ ~norm.parsed
    /\ norm' = [given |-> TRUE, row |-> norm.row, parsed |-> TRUE,
                extracted |-> norm.extracted,
                scrobble |-> parse_scrobble_dict(norm.row),
                entry |-> IF norm.extracted THEN norm.entry ELSE ValueError("none")]
    /\ NormOnly

\* _extract_track_data(node) for a node that has its artist and track texts.
ExtractTrackData ==
    /\ norm.given
    /\ ~norm.extracted
    /\ norm.row.artist # Absent
    /\ norm' = [given |-> TRUE, row |-> norm.row, parsed |-> norm.parsed,
                extracted |-> TRUE,
                scrobble |-> IF norm.parsed THEN norm.scrobble ELSE ValueError("none"),
                entry |-> extract_track_data(NodeOf(norm.row))]
    /\ NormOnly

NextNorm ==
    \/ ParseScrobbleDict
    \/ ExtractTrackData

SpecNorm == InitNorm /\ [][NextNorm]_vars

\* The record has its three names as the API would give them: texts that
\* stripping leaves as they are.
CleanNames(row) ==
    /\ row.artist \in {"x", "y"}
    /\ row.track \in {"x", "y"}
    /\ row.album \in {"x", "y"}

\* C19: for the same names and the same external ids present, both
\* normalizers assign the same artist, album and track ids.
C19_SameIdsFromBothNormalizers ==
    ( /\ norm.parsed
      /\ norm.extracted
      /\ CleanNames(norm.row)
      /\ ~Raised(norm.scrobble) )
    => /\ norm.scrobble.artist.id = norm.entry.artist.id
       /\ norm.scrobble.album.id = norm.entry.album.id
       /\ norm.scrobble.track.id = norm.entry.track.id

\* C20: parse_scrobble_dict raises ValueError or returns a scrobble with a
\* non-empty artist name and track title and a timestamp, and with the
\* title "(unknown album)" when the record has no album or an empty one.
C20_ParsedScrobbleIsValid ==
    (norm.parsed /\ ~Raised(norm.scrobble))
    => /\ norm.scrobble.artist.name # ""
       /\ norm.scrobble.track.title # ""
       /\ norm.scrobble.play.timestamp \in Datetimes
       /\ norm.row.album \in {Absent, ""} => norm.scrobble.album.title = UnknownAlbum

----------------------------------------------------------------------------
(* add_scrobbles: the accounting of records, and partial writes            *)

\* Number of records of the log with this outcome.
Outcomes_of(q, what) == Cardinality({i \in 1..Len(q) : q[i] = what})

\* 1 if limit_reached else 0
LimitUnit(st) == IF st.limit_reached THEN 1 ELSE 0

\* C28: when add_scrobbles returns, total_processed is the number of
\* records excluded by sampling plus added, skipped, the number of errors
\* and one for the record that met the limit; with sampling enabled sampled
\* is the same sum without the excluded records.
C28_EveryRecordAccounted ==
    apc = "returned" =>
        /\ stats.total_processed = pos
        /\ stats.total_processed =
             Outcomes_of(log, "excluded") + stats.added + stats.skipped
             + Len(stats.errors) + LimitUnit(stats)
        /\ cfg.sample # NoSample =>
             stats.sampled =
               stats.added + stats.skipped + Len(stats.errors) + LimitUnit(stats)

\* A sampling call returned after a record that failed, one that was added
\* and one met at the limit.
C28_Witness ==
    /\ apc = "returned"
    /\ cfg.skip_errors
    /\ cfg.sample # NoSample
    /\ stats.limit_reached
    /\ Len(stats.errors) = 1
    /\ stats.added = 1
    /\ stats.total_processed = 3

\* The step is a write of the current record that raises.
WriteFails == Len(stats'.errors) > Len(stats.errors)

\* C29: under skip_errors a record whose write fails leaves the store as
\* the writes before the failure made it, adds no row to plays, does not
\* increment added and is not put into existing_plays; the loop goes on.
C29_FailedRecordLeavesNoPlay ==
    [][ /\ (cfg.skip_errors /\ WriteFails)
           => /\ db' = db
              /\ stats'.added = stats.added
              /\ existing_plays' = existing_plays
              /\ apc' = "loop"
        /\ apc \in {"artist", "album", "track"}
           => /\ db'.plays = db.plays
              /\ stats'.added = stats.added
              /\ existing_plays' = existing_plays
      ]_vars

\* The album write of a record failed: its artist row, which the store did
\* not hold before the call, is there, its album and its play are not.
C29_Witness ==
    /\ apc = "loop"
    /\ cfg.skip_errors
    /\ cfg.no_duplicates
    /\ pos > 0
    /\ Len(log) > 0
    /\ log[Len(log)] = "error"
    /\ HasId(db.artists, input[pos].artist.id)
    /\ ~HasId(db0.artists, input[pos].artist.id)
    /\ ~HasId(db.albums, input[pos].album.id)
    /\ StoredKey(input[pos]) \notin db.plays
    /\ PlayKey(input[pos]) \notin existing_plays
    /\ stats.added = 0

----------------------------------------------------------------------------
(* recent_tracks: the order of the page requests and its end               *)

\* The number of page requests of a call that reads all pages: page 1 is
\* requested to learn totalPages, whatever it then says.
PagesToRequest(total_pages) == IF total_pages > 1 THEN total_pages ELSE 1

\* The most child nodes a response holds.
MaxNodes ==
    CHOOSE n \in {Len(q) : q \in NodeLists} : \A q \in NodeLists : Len(q) <= n

\* C27: recent_tracks requests page 1, then 2, up to totalPages, each only
\* after the response before it was consumed; totalPages is read from the
\* first response and never again; the call ends after the last page, so
\* it yields finitely many entries, also when totalPages is 0.
C27_PagesInOrderThenStop ==
    /\ [](fetch.fn = "recent_tracks" =>
            /\ fetch.pc \in {"request", "page", "yield"} => fetch.requests = fetch.page
            /\ fetch.total_pages # NoPages =>
                 fetch.requests <= PagesToRequest(fetch.total_pages)
            /\ (fetch.pc = "done" /\ ~LimitReached(fetch.limit, fetch.tracks_yielded))
                 => fetch.requests = PagesToRequest(fetch.total_pages)
            /\ fetch.yielded <= fetch.requests * MaxNodes)
    /\ [][ /\ fetch.total_pages # NoPages => fetch'.total_pages = fetch.total_pages
           /\ (fetch.fn = "recent_tracks" /\ fetch'.requests # fetch.requests)
                => /\ fetch'.requests = fetch.requests + 1
                   /\ fetch'.page = fetch.page + 1
                   /\ fetch.pc = "page"
                   /\ fetch.node = Len(fetch.doc.nodes)
         ]_vars
    /\ (fetch.fn = "recent_tracks") ~> (fetch.pc \in {"done", "failed"})

\* A call without limit that read two pages, yielded entries and ended,
\* though the second response named another totalPages.
C27_Witness ==
    /\ fetch.fn = "recent_tracks"
    /\ fetch.pc = "done"
    /\ fetch.limit = 0
    /\ fetch.total_pages = 2
    /\ fetch.requests = 2
    /\ fetch.doc.totalPages # "2"
    /\ fetch.yielded > 0

----------------------------------------------------------------------------
(* The triggers: which rows of tracks_fts a write may touch                *)

\* Every row of the index that does not carry the id in the column is there
\* as often after the step as before it.
OtherRowsKept(column, id) ==
    \A r \in (DOMAIN db.fts) \cup (DOMAIN db'.fts) :
        r[column] # id => CopiesIn(r, db'.fts) = CopiesIn(r, db.fts)

\* After the step the index holds no row that carries the id in the column.
RowsOfIdRemoved(column, id) ==
    \A r \in DOMAIN db'.fts : r[column] # id

\* The step wrote the row with this id, and no other row, of the table.
Wrote(before, after, id) ==
    /\ HasId(after, id)
    /\ \A r \in (after \ before) \cup (before \ after) : r.id = id

\* The step deleted the row with this id of the table.
Deleted(before, after, id) == HasId(before, id) /\ after = {r \in before : r.id # id}

\* C25: a write of an artist row changes only the rows of tracks_fts with
\* that artist_id, of an album row only those with that album_id, of a
\* track row only those with that track_id; every other row stays as it
\* is, and with the triggers installed a delete removes exactly the rows
\* that carry the deleted id.
C25_WriteTouchesOnlyItsRows ==
    [][ /\ op' = "save_artist" =>
             \E id \in ArtistIds :
                 Wrote(db.artists, db'.artists, id) /\ OtherRowsKept("artist_id", id)
        /\ op' = "save_album" =>
             \E id \in AlbumIds :
                 Wrote(db.albums, db'.albums, id) /\ OtherRowsKept("album_id", id)
        /\ op' = "save_track" =>
             \E id \in TrackIds :
                 Wrote(db.tracks, db'.tracks, id) /\ OtherRowsKept("track_id", id)
        /\ op' = "delete_artist" =>
             \E id \in ArtistIds :
                 /\ Deleted(db.artists, db'.artists, id)
                 /\ OtherRowsKept("artist_id", id)
                 /\ "artists" \in db.triggers => RowsOfIdRemoved("artist_id", id)
        /\ op' = "delete_album" =>
             \E id \in AlbumIds :
                 /\ Deleted(db.albums, db'.albums, id)
                 /\ OtherRowsKept("album_id", id)
                 /\ "albums" \in db.triggers => RowsOfIdRemoved("album_id", id)
        /\ op' = "delete_track" =>
             \E id \in TrackIds :
                 /\ Deleted(db.tracks, db'.tracks, id)
                 /\ OtherRowsKept("track_id", id)
                 /\ "tracks" \in db.triggers => RowsOfIdRemoved("track_id", id)
      ]_vars

\* Artist a1 of the indexed library was renamed: its row of the index
\* carries the new name, the row of artist a2 is as it was.
C25_Witness ==
    /\ op = "save_artist"
    /\ presync
    /\ BagIn(FtsRow("y", "x", "x", "a1", "b1", "t1"), db.fts)
    /\ BagIn(FtsRow("y", "y", "y", "a2", "b2", "t2"), db.fts)
    /\ BagCardinality(db.fts) = 2

----------------------------------------------------------------------------
(* ingest --newest after an interrupted run                                *)

\* The entries of the remote history: two tracks, two times.
RemoteEntries ==
    {Scrobble("a1", "x", "b1", "x", "t1", "x", "dt1"),
     Scrobble("a2", "x", "b2", "x", "t2", "x", "dt2"),
     Scrobble("a1", "x", "b1", "x", "t1", "x", "dt2")}

\* The orders in which the remote source may return some of its entries.
RemoteHistories ==
    {h \in SeqsUpTo(RemoteEntries, MaxHistory) :
        \A i, j \in 1..Len(h) : i # j => h[i] # h[j]}

\* int(since.timestamp()) of dateutil.parser.parse(text), for the texts
\* save_play stores.
UtsOfText(text) == IF text = isoformat("dt1") THEN 1705329000 ELSE 1705329060

\* int(datetime.timestamp()) of an entry's play time.
UtsOf(ts) == UtsOfText(StoredTimestamp(ts))

\* "if newest and db['plays'].exists: select max(timestamp) from plays",
\* parsed and given to recent_tracks as params["from"].
SinceNewest(d) ==
    IF "plays" \notin d.tables \/ d.plays = {} THEN NoSince
    ELSE UtsOfText((CHOOSE r \in d.plays :
                      \A o \in d.plays : UtsOfText(o.timestamp) <= UtsOfText(r.timestamp)
                   ).timestamp)

\* What the remote source returns for params["from"]: the entries from that
\* time on, in its order; whether the bound is included is the source's.
RemoteFrom(entries, since, inclusive) ==
    LET Wanted(e) ==
            \/ since = NoSince
            \/ UtsOf(e.play.timestamp) > since
            \/ inclusive /\ UtsOf(e.play.timestamp) = since
    IN  SelectSeq(entries, Wanted)

\* A new database and a remote history, returned in some order.
InitResume ==
    /\ db = EmptyDb
    /\ op = "open"
    /\ IdleFts
    /\ IdleIngest
    /\ cfg = NoCall.cfg
    /\ input = <<>>
    /\ pos = 0
    /\ stats = NewStats
    /\ existing_plays = {}
    /\ apc = "idle"
    /\ rng = 0
    /\ db0 = EmptyDb
    /\ log = <<>>
    /\ prev = NoCall
    /\ file = <<>>
    /\ fpos = 0
    /\ console = <<>>
    /\ saves = <<>>
    /\ fetch = NoFetch
    /\ norm = NoNorm
    /\ query = NoQuery
    /\ \E h \in RemoteHistories : remote = [entries |-> h, since |-> NoSince]

\* ingest --newest, up to the loop.
IngestNewest ==
    /\ ipc \in {"idle", "interrupted"}
    /\ nruns < MaxRuns
    /\ nruns' = nruns + 1
    /\ LET since == SinceNewest(db)
       IN  /\ remote' = [remote EXCEPT !.since = since]
           /\ \E inclusive \in BOOLEAN :
                LET h == RemoteFrom(remote.entries, since, inclusive)
                IN  /\ history' = h
                    /\ ipc' = IF h = <<>> THEN "done" ELSE "artist"
    /\ ingested' = {}
    /\ db' = IF "tracks_fts" \notin db.tables THEN setup_fts5(db) ELSE db
    /\ op' = "ingest"
    /\ UNCHANGED <<ftsvars, addcore, importvars, savevars, fetch, norm, query>>

\* The run is interrupted in its loop.
Interrupt ==
    /\ ipc \in {"artist", "album", "track", "play"}
    /\ ipc' = "interrupted"
    /\ UNCHANGED <<db, op, history, ingested, nruns, ftsvars, addvars>>

NextResume ==
    \/ IngestNewest
    \/ Interrupt
    \/ IngestSaveArtist
    \/ IngestSaveAlbum
    \/ IngestSaveTrack
    \/ IngestSavePlay

SpecResume == InitResume /\ [][NextResume]_vars

\* The play of a remote entry is a row of plays.
PlayStored(d, e) ==
    [timestamp |-> StoredTimestamp(e.play.timestamp), track_id |-> e.play.track_id]
        \in d.plays

\* C26: when a run of ingest --newest that followed an interrupted run has
\* finished, every play of the remote history is in the store, in whatever
\* order the remote source returns its entries.
C26_RerunCompletesStore ==
    (ipc = "done" /\ nruns = 2) =>
        \A i \in 1..Len(remote.entries) : PlayStored(db, remote.entries[i])

----------------------------------------------------------------------------
(* domain_queries: texts                                                   *)

MaxQueryLimit == 2

\* str.lower() of the names and search texts in use, character by character.
lower(s) ==
    CASE s = "The Beatles" -> <<"t", "h", "e", " ", "b", "e", "a", "t", "l", "e", "s">>
      [] s = "Beach Boys" -> <<"b", "e", "a", "c", "h", " ", "b", "o", "y", "s">>
      [] s = "Beetles" -> <<"b", "e", "e", "t", "l", "e", "s">>
      [] s = "Beatles" -> <<"b", "e", "a", "t", "l", "e", "s">>
      [] s = "Bea" -> <<"b", "e", "a">>
      [] s = "Boy" -> <<"b", "o", "y">>
      [] s = "Zappa" -> <<"z", "a", "p", "p", "a">>

SearchTexts == {"Beetles", "Beatles", "Bea", "Boy", "Zappa"}

\* sub is a run of consecutive characters of s.
Contains(s, sub) ==
    \E i \in 0..(Len(s) - Len(sub)) : SubSeq(s, i + 1, i + Len(sub)) = sub

\* value LIKE '%text%': SQLite's LIKE ignores the case of ASCII letters.
Like(value, text) == Contains(lower(value), lower(text))

\* The tokens of the unicode61 tokenizer: the runs between spaces, lowered.
Tokens(s) ==
    {SubSeq(s, p[1], p[2]) :
        p \in {q \in (1..Len(s)) \X (1..Len(s)) :
                 /\ q[1] <= q[2]
                 /\ \A k \in q[1]..q[2] : s[k] # " "
                 /\ (q[1] = 1 \/ s[q[1] - 1] = " ")
                 /\ (q[2] = Len(s) \/ s[q[2] + 1] = " ")}}

\* tracks_fts MATCH 'artist_name:text*': a token of the column starts with
\* the text.
FtsPrefixMatch(value, text) ==
    \E t \in Tokens(lower(value)) :
        /\ Len(lower(text)) <= Len(t)
        /\ SubSeq(t, 1, Len(lower(text))) = lower(text)

RECURSIVE Lcs(_, _)
\* Length of the longest common subsequence.
Lcs(a, b) ==
    IF a = <<>> \/ b = <<>> THEN 0
    ELSE IF Head(a) = Head(b) THEN 1 + Lcs(Tail(a), Tail(b))
    ELSE LET x == Lcs(Tail(a), b)
             y == Lcs(a, Tail(b))
         IN  IF x >= y THEN x ELSE y

\* fuzz.ratio in thousandths: 100 * 2 * lcs / (len(a) + len(b)).
Ratio(a, b) == (200000 * Lcs(a, b)) \div (Len(a) + Len(b))

\* The pieces of s that partial_ratio aligns a text of length n with: the
\* windows of length n, and the shorter ones at either end.
Windows(s, n) ==
    {SubSeq(s, p[1], p[2]) :
        p \in {q \in (1..Len(s)) \X (1..Len(s)) :
                 /\ q[1] <= q[2]
                 /\ q[2] - q[1] + 1 <= n
                 /\ (q[2] - q[1] + 1 = n \/ q[1] = 1 \/ q[2] = Len(s))}}

\* fuzz.partial_ratio(a, b) in thousandths: the best ratio of the shorter
\* text with a piece of the longer one.
partial_ratio(a, b) ==
    LET short == IF Len(a) <= Len(b) THEN a ELSE b
        long == IF Len(a) <= Len(b) THEN b ELSE a
        scores == {Ratio(short, w) : w \in Windows(long, Len(short))}
    IN  CHOOSE x \in scores : \A y \in scores : y <= x

----------------------------------------------------------------------------
(* domain_queries: times                                                   *)

\* since=None, until=None
NoTime == [day |-> 0, aware |-> FALSE]

\* The datetimes given as since and until: 14:30:00 of a day of January
\* 2024, with tzinfo=UTC or without tzinfo.
Times == {NoTime} \cup [day : {15, 16, 18}, aware : BOOLEAN]

\* datetime.now(): a later hour of 17 January, or an earlier one.
Now == [day |-> 17, aware |-> FALSE]

\* datetime.isoformat() of a datetime of Times.
isoformat_of(t) ==
    CASE t.day = 15 /\ ~t.aware -> "2024-01-15T14:30:00"
      [] t.day = 15 /\ t.aware -> "2024-01-15T14:30:00+00:00"
      [] t.day = 16 /\ ~t.aware -> "2024-01-16T14:30:00"
      [] t.day = 16 /\ t.aware -> "2024-01-16T14:30:00+00:00"
      [] t.day = 18 /\ ~t.aware -> "2024-01-18T14:30:00"
      [] t.day = 18 /\ t.aware -> "2024-01-18T14:30:00+00:00"

\* The texts in the order SQLite compares TEXT values: byte by byte, a
\* text before every longer text that starts with it.
TextsInOrder ==
    <<"2024-01-15T14:30:00", "2024-01-15T14:30:00+00:00",
      "2024-01-16T14:30:00", "2024-01-16T14:30:00+00:00",
      "2024-01-18T14:30:00", "2024-01-18T14:30:00+00:00">>

TextRank(text) == CHOOSE i \in 1..Len(TextsInOrder) : TextsInOrder[i] = text

\* The day of dateutil.parser.parse(text) for a stored timestamp.
DayOfText(text) ==
    CASE text = "2024-01-15T14:30:00+00:00" -> 15
      [] text = "2024-01-16T14:30:00+00:00" -> 16
      [] text = "2024-01-18T14:30:00+00:00" -> 18

\* The rows of plays the WHERE clause selects: "plays.timestamp >= ?" with
\* since.isoformat() and "plays.timestamp <= ?" with until.isoformat().
Where(d, since, until) ==
    {p \in d.plays :
        /\ since # NoTime => TextRank(p.timestamp) >= TextRank(isoformat_of(since))
        /\ until # NoTime => TextRank(p.timestamp) <= TextRank(isoformat_of(until))}

\* plays JOIN tracks JOIN albums JOIN artists over the given rows of plays.
Joined(d, rows) ==
    {j \in rows \X d.tracks \X d.albums \X d.artists :
        /\ j[1].track_id = j[2].id
        /\ j[2].album_id = j[3].id
        /\ j[3].artist_id = j[4].id}

\* "x or 1"
OrOne(x) == IF x = 0 THEN 1 ELSE x

Days(n) == [raised |-> FALSE, days |-> n]

\* Subtracting an aware datetime and a naive one raises TypeError.
TypeError == [raised |-> TRUE, days |-> 0]

\* The day span of get_top_artists; late: now is past 14:30.
DaySpan(d, since, until, late) ==
    IF since # NoTime /\ until # NoTime
    THEN IF since.aware # until.aware THEN TypeError
         ELSE Days(OrOne(until.day - since.day))
    ELSE IF since # NoTime
    THEN IF since.aware THEN TypeError
         ELSE Days(OrOne(Now.day - since.day - (IF late THEN 0 ELSE 1)))
    ELSE IF until # NoTime
    THEN IF until.aware THEN TypeError
         ELSE Days(OrOne(until.day - Now.day - (IF late THEN 1 ELSE 0)))
    ELSE IF d.plays # {}
    THEN LET days == {DayOfText(p.timestamp) : p \in d.plays}
             first == CHOOSE x \in days : \A y \in days : x <= y
             last == CHOOSE x \in days : \A y \in days : y <= x
         IN  Days(OrOne(last - first))
    ELSE Days(1)

----------------------------------------------------------------------------
(* domain_queries: the store and the queries                               *)

\* Two artists with an album and a track each, indexed; the albums and the
\* tracks carry the names of their artists.
QueryLibrary ==
    LET d1 == save_artist(save_artist(EmptyDb, [id |-> "a1", name |-> "The Beatles"]),
                          [id |-> "a2", name |-> "Beach Boys"])
        d2 == save_album(save_album(d1,
                  [id |-> "b1", title |-> "The Beatles", artist_id |-> "a1"]),
                  [id |-> "b2", title |-> "Beach Boys", artist_id |-> "a2"])
        d3 == save_track(save_track(d2,
                  [id |-> "t1", title |-> "The Beatles", album_id |-> "b1"]),
                  [id |-> "t2", title |-> "Beach Boys", album_id |-> "b2"])
    IN  index(d3)

\* The plays the store may hold.
QueryPlays ==
    {[timestamp |-> "2024-01-15T14:30:00+00:00", track_id |-> "t1"],
     [timestamp |-> "2024-01-16T14:30:00+00:00", track_id |-> "t1"],
     [timestamp |-> "2024-01-16T14:30:00+00:00", track_id |-> "t2"],
     [timestamp |-> "2024-01-18T14:30:00+00:00", track_id |-> "t2"]}

\* The library after save_play of some of the plays.
QueryStores ==
    {[QueryLibrary EXCEPT !.tables = @ \cup {"plays"}, !.plays = rows] :
        rows \in SUBSET QueryPlays}

InitQuery ==
    /\ db \in QueryStores
    /\ op = "open"
    /\ IdleFts
    /\ IdleIngest
    /\ cfg = NoCall.cfg
    /\ input = <<>>
    /\ pos = 0
    /\ stats = NewStats
    /\ existing_plays = {}
    /\ apc = "idle"
    /\ rng = 0
    /\ db0 = EmptyDb
    /\ log = <<>>
    /\ prev = NoCall
    /\ file = <<>>
    /\ fpos = 0
    /\ console = <<>>
    /\ saves = <<>>
    /\ fetch = NoFetch
    /\ norm = NoNorm
    /\ remote = NoRemote
    /\ query = NoQuery

\* A query reads the store; one query is made.
QueryOnly ==
    /\ query.fn = "none"
    /\ UNCHANGED <<db, op, ftsvars, ingestvars, addcore, importvars, savevars, fetch,
                   norm, remote>>

\* The orders "ORDER BY key DESC" may return the rows in: rows with equal
\* keys come in any order.
Descending(S, Before(_, _)) ==
    {q \in [1..Cardinality(S) -> S] :
        /\ \A i, j \in 1..Cardinality(S) : i # j => q[i] # q[j]
        /\ \A i \in 1..(Cardinality(S) - 1) : ~Before(q[i + 1], q[i])}

\* LIMIT n, rows[:n]
FirstRows(q, n) == SubSeq(q, 1, IF n < Len(q) THEN n ELSE Len(q))

\* The rank is the index of enumerate itself.
RankOf_index(i) == i

\* "rank": i + 1
RankOf(i) == i + 1

\* (count / total_plays * 100) if total_plays > 0 else 0, as a fraction.
Percentage(count, total) ==
    IF total > 0 THEN [num |-> count * 100, den |-> total] ELSE [num |-> 0, den |-> 1]

\* get_top_artists(db, since, until, limit)
GetTopArtists ==
    /\ QueryOnly
    /\ \E since \in Times, until \in Times, limit \in 1..MaxQueryLimit, late \in BOOLEAN :
         LET counted == Where(db, since, until)
             total_plays == Cardinality(counted)
             joined == Joined(db, counted)
             PlayCount(a) == Cardinality({j \in joined : j[4] = a})
             groups == {a \in db.artists : PlayCount(a) > 0}
             More(a, b) == PlayCount(a) > PlayCount(b)
             span == DaySpan(db, since, until, late)
         IN  \E order \in Descending(groups, More) :
               LET rows == FirstRows(order, limit)
               IN  query' =
                     [fn |-> "get_top_artists", since |-> since, until |-> until,
                      limit |-> limit, counted |-> counted,
                      raised |-> span.raised,
                      rows |-> IF span.raised THEN <<>>
                               ELSE [i \in 1..Len(rows) |->
                                       [rank |-> RankOf(i - 1),
                                        artist_id |-> rows[i].id,
                                        artist_name |-> rows[i].name,
                                        play_count |-> PlayCount(rows[i]),
                                        percentage |->
                                            Percentage(PlayCount(rows[i]), total_plays),
                                        avg_plays_per_day |->
                                            [num |-> PlayCount(rows[i]),
                                             den |-> span.days]]]]

\* get_top_tracks(db, since, until, limit) with artist=None
GetTopTracks ==
    /\ QueryOnly
    /\ \E since \in Times, until \in Times, limit \in 1..MaxQueryLimit :
         LET joined == Joined(db, Where(db, since, until))
             total_plays == Cardinality(joined)
             PlayCount(t) == Cardinality({j \in joined : j[2] = t})
             groups == {t \in db.tracks : PlayCount(t) > 0}
             More(a, b) == PlayCount(a) > PlayCount(b)
         IN  \E order \in Descending(groups, More) :
               LET rows == FirstRows(order, limit)
               IN  query' =
                     [fn |-> "get_top_tracks", since |-> since, until |-> until,
                      limit |-> limit, counted |-> {j[1] : j \in joined},
                      raised |-> FALSE,
                      rows |-> [i \in 1..Len(rows) |->
                                  [rank |-> RankOf(i - 1),
                                   track_id |-> rows[i].id,
                                   track_title |-> rows[i].title,
                                   play_count |-> PlayCount(rows[i]),
                                   percentage |->
                                       Percentage(PlayCount(rows[i]), total_plays)]]]

\* The one group of a rollup: every stored play is of January 2024.
Rollup(fn, since, until, joined) ==
    [fn |-> fn, since |-> since, until |-> until, limit |-> 0,
     counted |-> {j[1] : j \in joined}, raised |-> FALSE,
     rows |-> IF joined = {} THEN <<>>
              ELSE <<[year |-> 2024, month |-> 1,
                      scrobbles |-> Cardinality(joined),
                      unique_artists |-> Cardinality({j[4].id : j \in joined}),
                      unique_albums |-> Cardinality({j[3].id : j \in joined}),
                      unique_tracks |-> Cardinality({j[2].id : j \in joined})]>>]

\* get_monthly_rollup(db, since, until) with limit=None
GetMonthlyRollup ==
    /\ QueryOnly
    /\ \E since \in Times, until \in Times :
         query' = Rollup("get_monthly_rollup", since, until,
                         Joined(db, Where(db, since, until)))

\* get_yearly_rollup(db, since, until) with limit=None
GetYearlyRollup ==
    /\ QueryOnly
    /\ \E since \in Times, until \in Times :
         query' = Rollup("get_yearly_rollup", since, until,
                         Joined(db, Where(db, since, until)))

\* "LIMIT n" on rows that come in no stated order: some n of them.
Limited(S, n) ==
    {T \in SUBSET S : Cardinality(T) = IF n < Cardinality(S) THEN n ELSE Cardinality(S)}

\* The artist ids the FTS5 query of get_artists_by_search may return.
FtsCandidates(d, text, limit) ==
    IF "tracks_fts" \notin d.tables THEN {{}}
    ELSE {{r[1] : r \in T} :
            T \in Limited({<<r.artist_id, r.artist_name>> :
                              r \in {x \in DOMAIN d.fts :
                                       FtsPrefixMatch(x.artist_name, text)}},
                          limit * 3)}

\* The artist ids after the LIKE search was added, when it is made.
Candidates(d, text, limit, fts_ids) ==
    IF Cardinality(fts_ids) >= limit THEN {fts_ids}
    ELSE {fts_ids \cup more :
            more \in UNION {Limited(like_ids \ fts_ids, limit * 2 - Cardinality(fts_ids)) :
                              like_ids \in Limited({a.id : a \in {x \in d.artists :
                                                                    Like(x.name, text)}},
                                                   limit * 2)}}

\* COUNT(plays.timestamp) over artists LEFT JOIN albums, tracks, plays.
ArtistPlayCount(d, a) == Cardinality({j \in Joined(d, d.plays) : j[4] = a})

\* get_artists_by_search(db, text, limit)
GetArtistsBySearch ==
    /\ QueryOnly
    /\ \E text \in SearchTexts, limit \in 1..MaxQueryLimit :
         \E fts_ids \in FtsCandidates(db, text, limit) :
           \E artist_ids \in Candidates(db, text, limit, fts_ids) :
             LET found == {a \in db.artists : a.id \in artist_ids}
                 Score(a) == partial_ratio(lower(text), lower(a.name))
                 More(a, b) ==
                     \/ Score(a) > Score(b)
                     \/ Score(a) = Score(b) /\ ArtistPlayCount(db, a) > ArtistPlayCount(db, b)
             IN  \E order \in Descending(found, More) :
                   LET rows == FirstRows(order, limit)
                   IN  query' =
                         [fn |-> "get_artists_by_search", text |-> text, limit |-> limit,
                          candidates |-> artist_ids, raised |-> FALSE,
                          rows |-> [i \in 1..Len(rows) |->
                                      [artist_id |-> rows[i].id,
                                       artist_name |-> rows[i].name,
                                       play_count |-> ArtistPlayCount(db, rows[i]),
                                       fuzzy_score |-> Score(rows[i])]]]

\* The ids and names a point lookup is given; None is PyNone.
LookupIds == {PyNone, "a1", "b2", "t1", "zz"}
LookupNames == {PyNone, "Bea", "Beatles", "Zappa"}

\* What a point lookup does with the rows its name search gave with
\* "LIMIT 2", or with the row of its id search.
Lookup(fn, id, name, by_id, by_name) ==
    LET matches == IF id # PyNone THEN by_id ELSE by_name
        base == [fn |-> fn, id |-> id, name |-> name, matches |-> Cardinality(matches)]
    IN  IF id = PyNone /\ name = PyNone
        THEN {[outcome |-> "ValueError", raised |-> TRUE, row |-> PyNone] @@ base}
        ELSE IF matches = {}
        THEN {[outcome |-> "None", raised |-> FALSE, row |-> PyNone] @@ base}
        ELSE IF id = PyNone /\ Cardinality(matches) > 1
        THEN {[outcome |-> "ValueError", raised |-> TRUE, row |-> PyNone] @@ base}
        ELSE {[outcome |-> "dict", raised |-> FALSE, row |-> r.id] @@ base :
                r \in matches}

\* get_artist_details(db, artist_id, artist_name)
GetArtistDetails ==
    /\ QueryOnly
    /\ \E id \in LookupIds, name \in LookupNames :
         query' \in Lookup("get_artist_details", id, name,
                           {a \in db.artists : a.id = id},
                           {a \in db.artists : name # PyNone /\ Like(a.name, name)})

\* get_album_details(db, album_id, album_title) with artist_name=None
GetAlbumDetails ==
    /\ QueryOnly
    /\ \E id \in LookupIds, name \in LookupNames :
         LET joined == {b \in db.albums : \E a \in db.artists : b.artist_id = a.id}
         IN  query' \in Lookup("get_album_details", id, name,
                               {b \in joined : b.id = id},
                               {b \in joined : name # PyNone /\ Like(b.title, name)})

\* get_track_details(db, track_id, track_title) with artist_name=None and
\* album_title=None
GetTrackDetails ==
    /\ QueryOnly
    /\ \E id \in LookupIds, name \in LookupNames :
         LET joined == {t \in db.tracks :
                          \E b \in db.albums, a \in db.artists :
                              t.album_id = b.id /\ b.artist_id = a.id}
         IN  query' \in Lookup("get_track_details", id, name,
                               {t \in joined : t.id = id},
                               {t \in joined : name # PyNone /\ Like(t.title, name)})

NextQuery ==
    \/ GetTopArtists
    \/ GetTopTracks
    \/ GetMonthlyRollup
    \/ GetYearlyRollup
    \/ GetArtistsBySearch
    \/ GetArtistDetails
    \/ GetAlbumDetails
    \/ GetTrackDetails

SpecQuery == InitQuery /\ [][NextQuery]_vars

----------------------------------------------------------------------------
(* domain_queries: what the queries return                                 *)

\* The plays of the window by time: since <= timestamp < until.
InWindow(d, since, until) ==
    {p \in d.plays :
        /\ since # NoTime => since.day <= DayOfText(p.timestamp)
        /\ until # NoTime => DayOfText(p.timestamp) < until.day}

\* The plays of an artist among the rows the query selected.
PlaysOfArtist(d, rows, id) ==
    {p \in rows : \E t \in d.tracks, b \in d.albums :
                     p.track_id = t.id /\ t.album_id = b.id /\ b.artist_id = id}

\* C21: the rows of get_top_artists carry the ranks 1..n in the order of
\* the list, play_count does not increase along it, and percentage is 100
\* times play_count divided by the number of plays selected; an artist
\* that holds all of them has rank 1 and 100 percent.
C21_RankedByPlayCount ==
    (query.fn = "get_top_artists" /\ ~query.raised) =>
        LET rows == query.rows
            total == Cardinality(query.counted)
        IN  /\ \A i \in 1..Len(rows) :
                 /\ rows[i].rank = i
                 /\ rows[i].play_count =
                        Cardinality(PlaysOfArtist(db, query.counted, rows[i].artist_id))
                 /\ rows[i].percentage.num * total
                        = 100 * rows[i].play_count * rows[i].percentage.den
                 /\ rows[i].play_count = total =>
                        /\ rows[i].rank = 1
                        /\ rows[i].percentage.num = 100 * rows[i].percentage.den
            /\ \A i \in 1..(Len(rows) - 1) : rows[i].play_count >= rows[i + 1].play_count

\* Two artists ranked in a window with since given, the first with two of
\* its three plays.
C21_Witness ==
    /\ query.fn = "get_top_artists"
    /\ ~query.raised
    /\ Len(query.rows) = 2
    /\ query.rows[1].play_count = 2
    /\ query.rows[2].play_count = 1
    /\ query.rows[2].rank = 2
    /\ query.since # NoTime

WindowQueries ==
    {"get_top_artists", "get_top_tracks", "get_monthly_rollup", "get_yearly_rollup"}

\* C22: the plays a window query counts are those with
\* since <= timestamp < until; a play at timestamp = until is not counted.
C22_UntilIsExclusive ==
    query.fn \in WindowQueries => query.counted = InWindow(db, query.since, query.until)

\* C23: a point lookup by name returns one of three outcomes and raises
\* nothing: found for one matching row, not found for none, ambiguous for
\* more than one.
C23_LookupReturnsOutcome ==
    ( /\ query.fn \in {"get_artist_details", "get_album_details", "get_track_details"}
      /\ query.id = PyNone
      /\ query.name # PyNone )
    => /\ ~query.raised
       /\ query.matches = 1 <=> query.outcome = "dict"
       /\ query.matches = 0 <=> query.outcome = "None"

\* C24: the search for "Beetles" on a store that holds "The Beatles" and
\* "Beach Boys" returns "The Beatles", above "Beach Boys" if that is
\* returned too.
C24_MisspeltNameIsFound ==
    (query.fn = "get_artists_by_search" /\ query.text = "Beetles") =>
        \E i \in 1..Len(query.rows) :
            /\ query.rows[i].artist_name = "The Beatles"
            /\ \A j \in 1..Len(query.rows) :
                   query.rows[j].artist_name = "Beach Boys" => i < j

\* C30: the day span get_top_artists divides by is at least 1, so no
\* avg_plays_per_day is negative and no division by zero is made.
C30_DaySpanAtLeastOne ==
    (query.fn = "get_top_artists" /\ ~query.raised) =>
        \A i \in 1..Len(query.rows) : query.rows[i].avg_plays_per_day.den >= 1

====
